---- MODULE Spec2Model ----
(***************************************************************************)
(* The scaffold generators of the developer-skill scripts, as operations   *)
(* on a project tree.  The state is the file tree of the target project    *)
(* (its directories and the content of its files) together with what the   *)
(* last script run left behind: its invocation, exit status and output.    *)
(* One action is one run of one script's main().                           *)
(*                                                                         *)
(* A path is a sequence of components below the project root; a component  *)
(* is a pair <<stem, ext>> whose stem is a sequence of strings, so that a  *)
(* file name built from a converted identifier (PascalCase + ".tsx") is a  *)
(* value of the model.  A file's content is a sequence of lines; a line is *)
(* a record [k, a]: the template (or line kind) and its interpolated       *)
(* argument.                                                               *)
(*                                                                         *)
(* The string functions of the Gin skill (the type mappers, parse_fields,  *)
(* generate_entity) are operators on sequences of characters; fn, arg and  *)
(* ret hold the function applied last, its argument and what it returned.  *)
(*                                                                         *)
(* Two generator processes running at the same time against one tree are   *)
(* kept in procs: for each its script, its arguments, the statement it has *)
(* reached and the index.ts content it has read.                           *)
(***************************************************************************)
EXTENDS Integers, Sequences, FiniteSets, TLC

VARIABLES dirs, files, status, stdout, call, before, repeat, runs,
          fn, arg, ret, procs

vars == <<dirs, files, status, stdout, call, before, repeat, runs, fn, arg, ret, procs>>

\* Number of script runs explored from an initial project tree.
MaxRuns == 2

(***************************************************************************)
(* Paths and the pathlib operations the scripts use                        *)
(***************************************************************************)

\* A fixed path component such as "src" or "go.mod".
C(s) == << <<s>>, "" >>

\* A file name built from an identifier and an extension.
F(stem, ext) == <<stem, ext>>

Root == << >>

Parent(p) == SubSeq(p, 1, Len(p) - 1)

\* Path.exists()
Exists(d, f, p) == p \in d \/ p \in DOMAIN f

\* Path.is_dir()
IsDir(d, p) == p \in d

\* Path.mkdir(parents=True, exist_ok=True)
MkdirP(d, p) == d \cup { SubSeq(p, 1, k) : k \in 0..Len(p) }

\* Path.write_text(text) succeeds only if the parent directory exists;
\* otherwise open() raises FileNotFoundError.
CanWrite(d, p) == Parent(p) \in d

\* A write that leaves an existing file as it is.
WriteTextIfAbsent(f, p, text) ==
  [q \in DOMAIN f \cup {p} |-> IF q = p /\ p \notin DOMAIN f THEN text ELSE f[q]]

\* Path.write_text(text): the file holds exactly text afterwards.
WriteText(f, p, text) == [q \in DOMAIN f \cup {p} |-> IF q = p THEN text ELSE f[q]]

\* open(path, 'a').write(text)
AppendText(f, p, text) ==
  [q \in DOMAIN f \cup {p} |->
     IF q = p THEN (IF p \in DOMAIN f THEN f[p] ELSE << >>) \o text ELSE f[q]]

\* The text a template function returns: one line standing for the whole
\* interpolated body, determined by the template and its argument.
Tpl(k, a) == << [k |-> k, a |-> a] >>

NoFiles == [p \in {} |-> << >>]

(***************************************************************************)
(* Identifier conversions (names are sequences of characters)              *)
(***************************************************************************)

\* str.upper() / str.lower() on one character.
Upper(c) ==
  CASE c = "a" -> "A" [] c = "b" -> "B" [] c = "c" -> "C" [] c = "d" -> "D"
    [] c = "e" -> "E" [] c = "f" -> "F" [] c = "g" -> "G" [] c = "h" -> "H"
    [] c = "i" -> "I" [] c = "j" -> "J" [] c = "k" -> "K" [] c = "l" -> "L"
    [] c = "m" -> "M" [] c = "n" -> "N" [] c = "o" -> "O" [] c = "p" -> "P"
    [] c = "q" -> "Q" [] c = "r" -> "R" [] c = "s" -> "S" [] c = "t" -> "T"
    [] c = "u" -> "U" [] c = "v" -> "V" [] c = "w" -> "W" [] c = "x" -> "X"
    [] c = "y" -> "Y" [] c = "z" -> "Z"
    [] OTHER -> c

Lower(c) ==
  CASE c = "A" -> "a" [] c = "B" -> "b" [] c = "C" -> "c" [] c = "D" -> "d"
    [] c = "E" -> "e" [] c = "F" -> "f" [] c = "G" -> "g" [] c = "H" -> "h"
    [] c = "I" -> "i" [] c = "J" -> "j" [] c = "K" -> "k" [] c = "L" -> "l"
    [] c = "M" -> "m" [] c = "N" -> "n" [] c = "O" -> "o" [] c = "P" -> "p"
    [] c = "Q" -> "q" [] c = "R" -> "r" [] c = "S" -> "s" [] c = "T" -> "t"
    [] c = "U" -> "u" [] c = "V" -> "v" [] c = "W" -> "w" [] c = "X" -> "x"
    [] c = "Y" -> "y" [] c = "Z" -> "z"
    [] OTHER -> c

\* name.replace('-', ' ').replace('_', ' ').split(): the separators.
IsSep(c) == c \in {"-", "_", " "}

\* The words of a name: maximal runs of non-separator characters.
RECURSIVE SplitWords(_, _, _)
SplitWords(name, i, cur) ==
  IF i > Len(name) THEN (IF cur = << >> THEN << >> ELSE << cur >>)
  ELSE IF IsSep(name[i])
       THEN (IF cur = << >> THEN << >> ELSE << cur >>) \o SplitWords(name, i + 1, << >>)
       ELSE SplitWords(name, i + 1, Append(cur, name[i]))

Words(name) == SplitWords(name, 1, << >>)

\* str.capitalize(): first character upper-cased, the rest lower-cased.
Capitalize(w) == [i \in 1..Len(w) |-> IF i = 1 THEN Upper(w[i]) ELSE Lower(w[i])]

LowerAll(w) == [i \in 1..Len(w) |-> Lower(w[i])]

RECURSIVE JoinCap(_, _)
JoinCap(ws, i) == IF i > Len(ws) THEN << >> ELSE Capitalize(ws[i]) \o JoinCap(ws, i + 1)

\* ''.join(word.capitalize() for word in ...split())
to_pascal_case(name) == JoinCap(Words(name), 1)

\* parts[0].lower() + ''.join(word.capitalize() for word in parts[1:]);
\* the React script returns the name itself when it has no word.
to_camel_case(name) ==
  LET ws == Words(name)
  IN  IF ws = << >> THEN name ELSE LowerAll(ws[1]) \o JoinCap(ws, 2)

StartsWithUse(s) == Len(s) >= 3 /\ SubSeq(s, 1, 3) = <<"u", "s", "e">>

\* ensure_use_prefix: 'use' + camel[0].upper() + camel[1:] unless it starts with 'use'.
ensure_use_prefix(name) ==
  LET camel == to_camel_case(name)
  IN  IF StartsWithUse(camel) THEN camel
      ELSE <<"u", "s", "e", Upper(camel[1])>> \o SubSeq(camel, 2, Len(camel))

\* The names given on the command line.
Names == { <<"a", "-", "b">>, <<"u", "s", "e", "_", "C">> }

(***************************************************************************)
(* Project trees the scripts are run against                               *)
(***************************************************************************)

Tree(d, f) == [dirs |-> d, files |-> f]

\* The project path does not exist.
MissingTree == Tree({}, NoFiles)

\* An existing directory without any marker file.
EmptyTree == Tree({Root}, NoFiles)

\* A Vite/Next.js project as `npm create` leaves it: package.json and src/.
NodeTree ==
  Tree({Root, <<C("src")>>},
       [p \in {<<C("package.json")>>} |-> Tpl(<<"package.json">>, << >>)])

\* go.mod as create_go_mod writes it: its first line names the module.
GoMod == << [k |-> <<"module">>, a |-> <<"m">>], [k |-> <<"go 1.21">>, a |-> << >>] >>

\* The tree the Gin init_project.py creates (create_directory_structure and
\* the files written after it).
GinDirs ==
  UNION { MkdirP({}, p) :
          p \in { <<C("cmd"), C("api")>>,
                  <<C("internal"), C("domain"), C("entity")>>,
                  <<C("internal"), C("domain"), C("repository")>>,
                  <<C("internal"), C("usecase")>>,
                  <<C("internal"), C("handler")>>,
                  <<C("internal"), C("infrastructure"), C("repository")>>,
                  <<C("internal"), C("infrastructure"), C("database")>>,
                  <<C("internal"), C("infrastructure"), C("config")>>,
                  <<C("pkg"), C("middleware")>>, <<C("pkg"), C("response")>>,
                  <<C("pkg"), C("validator")>>, <<C("scripts")>> } }

\* create_env_file: the .env.example of a new Gin project.
GinEnvExample ==
  << [k |-> <<"#", "Server Configuration">>, a |-> << >>],
     [k |-> <<"PORT", "8080">>, a |-> << >>],
     [k |-> <<"#", "Database Configuration">>, a |-> << >>],
     [k |-> <<"DB_HOST", "localhost">>, a |-> << >>],
     [k |-> <<"#", "CORS Configuration">>, a |-> << >>],
     [k |-> <<"CORS_ALLOWED_ORIGINS", "*">>, a |-> << >>] >>

GinFiles ==
  { <<C("go.mod")>>, <<C("cmd"), C("api"), C("main.go")>>,
    <<C("internal"), C("infrastructure"), C("config"), C("config.go")>>,
    <<C("internal"), C("infrastructure"), C("database"), C("database.go")>>,
    <<C("pkg"), C("middleware"), F(<<"cors">>, ".go")>>,
    <<C("pkg"), C("response"), C("response.go")>>,
    <<C(".env.example")>>, <<C(".gitignore")>>, <<C("README.md")>> }

GinTree ==
  Tree(GinDirs,
       [p \in GinFiles |->
          IF p = <<C("go.mod")>> THEN GoMod
          ELSE IF p = <<C(".env.example")>> THEN GinEnvExample
               ELSE Tpl(<<"gin/init", p[Len(p)][1][1]>>, <<"m">>)])

\* A Go module that was not laid out by init_project.py: go.mod alone.
GinBareTree == Tree({Root}, [p \in {<<C("go.mod")>>} |-> GoMod])

\* The directories generate_domain.py writes into, in the order of its writes.
DomainDirs ==
  << <<C("internal"), C("domain"), C("entity")>>,
     <<C("internal"), C("domain"), C("repository")>>,
     <<C("internal"), C("infrastructure"), C("repository")>>,
     <<C("internal"), C("usecase")>>,
     <<C("internal"), C("handler")>> >>

\* A Gin project in which some of these (empty) directories are missing, as
\* in a checkout that does not keep empty directories.
GinPartialTrees ==
  { Tree(GinDirs \ { DomainDirs[i] : i \in missing }, GinTree.files) :
      missing \in SUBSET (1..Len(DomainDirs)) }

Pkg(name) == <<C("packages"), C(name)>>

Under(base, rels) == { base \o r : r \in rels }

\* The monorepo init_project.py creates: packages/backend, packages/frontend
\* (with components.json) and packages/shared, each with src/.
MonorepoDirs ==
  UNION { MkdirP({}, p) :
          p \in Under(Pkg("backend"), { <<C("src"), C("routes")>>, <<C("src"), C("middleware")>>,
                                        <<C("src"), C("services")>>, <<C("src"), C("db")>> })
           \cup Under(Pkg("frontend"), { <<C("src"), C("components"), C("ui")>>,
                                         <<C("src"), C("components"), C("layout")>>,
                                         <<C("src"), C("pages")>>, <<C("src"), C("hooks")>>,
                                         <<C("src"), C("lib")>> })
           \cup Under(Pkg("shared"), { <<C("src"), C("types")>>, <<C("src"), C("utils")>> }) }

MonorepoFiles ==
  { <<C("package.json")>>, <<C(".gitignore")>> }
    \cup Under(Pkg("backend"), { <<C("package.json")>>, <<C("src"), C("index.ts")>> })
    \cup Under(Pkg("frontend"), { <<C("package.json")>>, <<C("components.json")>>,
                                  <<C("src"), C("App.tsx")>> })
    \cup Under(Pkg("shared"), { <<C("package.json")>>, <<C("src"), C("index.ts")>> })

MonorepoTree ==
  Tree(MonorepoDirs, [p \in MonorepoFiles |-> Tpl(<<"monorepo/init", p[Len(p)][1][1]>>, << >>)])

\* A monorepo whose root already has a .env.example.
MonorepoEnvTree ==
  Tree(MonorepoDirs,
       [p \in MonorepoFiles \cup {<<C(".env.example")>>} |->
          IF p = <<C(".env.example")>> THEN << [k |-> <<"PORT", "3000">>, a |-> << >>] >>
          ELSE Tpl(<<"monorepo/init", p[Len(p)][1][1]>>, << >>)])

\* What packages/<name> may be: absent, a plain file, an empty directory, a
\* directory with src/, or a directory with components.json.
PackageStates == {"absent", "file", "dir", "src", "components.json"}

PackageDirs(name, st) ==
  IF st \in {"dir", "components.json"} THEN {Pkg(name)}
  ELSE IF st = "src" THEN {Pkg(name), Pkg(name) \o <<C("src")>>}
       ELSE {}

PackageFiles(name, st) ==
  IF st = "file" THEN {Pkg(name)}
  ELSE IF st = "components.json" THEN {Pkg(name) \o <<C("components.json")>>}
       ELSE {}

\* The roots with a packages/ directory holding backend and frontend in any
\* of these states.
PackageLayout(b, fr) ==
  Tree({Root, <<C("packages")>>} \cup PackageDirs("backend", b) \cup PackageDirs("frontend", fr),
       [p \in PackageFiles("backend", b) \cup PackageFiles("frontend", fr) |->
          Tpl(<<"layout">>, << >>)])

PackageLayouts == { PackageLayout(b, fr) : b \in PackageStates, fr \in PackageStates }

(***************************************************************************)
(* What one run of a script leaves behind                                  *)
(***************************************************************************)

\* The result of a run: the tree, the exit status and the printed lines.
Result(d, f, st, out) == [dirs |-> d, files |-> f, status |-> st, out |-> out]

\* An invocation: the script and its command-line arguments; `answer` is
\* the reply typed at the overwrite prompt ("" when no prompt appeared).
Call(script, name, type, opt, pkg, answer) ==
  [script |-> script, name |-> name, type |-> type, opt |-> opt,
   pkg |-> pkg, answer |-> answer]

NoCall == Call("", << >>, "", "", "", "")

\* Same script, same arguments.
SameArgs(c1, c2) ==
  /\ c1.script = c2.script /\ c1.name = c2.name /\ c1.type = c2.type
  /\ c1.opt = c2.opt /\ c1.pkg = c2.pkg

\* One run of a script: the state after the process has exited.
Run(c, r) ==
  /\ runs < MaxRuns
  /\ dirs' = r.dirs
  /\ files' = r.files
  /\ status' = r.status
  /\ stdout' = r.out
  /\ before' = Tree(dirs, files)
  /\ repeat' = (runs > 0 /\ SameArgs(c, call))
  /\ call' = c
  /\ runs' = runs + 1
  /\ UNCHANGED <<fn, arg, ret, procs>>

(***************************************************************************)
(* React: generate_component.py, generate_hook.py, generate_page.py        *)
(***************************************************************************)

\* The replies typed at "Overwrite? (y/N): ".
Answers == {"y", "Y", "n"}

\* The prompt with its test left out: no reply cancels.
DeclinedNever(answer) == FALSE

\* response.lower() != 'y'
Declined(answer) == Lower(answer) # "y"

ReactComponentTypes == {"basic", "children", "state", "form", "card", "list"}

\* The types the runs are tried with.
ReactComponentTypesTried == {"basic", "form"}

\* f"export * from './{name}'\n"
ReactExportLine(ident) == [k |-> <<"export * from">>, a |-> ident]

\* `export_line not in content`
HasLine(content, line) == \E i \in 1..Len(content) : content[i] = line

\* The index.ts update of create_component and create_hook: append the export
\* line unless the file already holds it; create the file when it is absent.
ReactUpdateIndex(f, index_file, export_line) ==
  IF index_file \in DOMAIN f
  THEN IF ~HasLine(f[index_file], export_line)
       THEN WriteText(f, index_file, f[index_file] \o <<export_line>>)
       ELSE f
  ELSE WriteText(f, index_file, <<export_line>>)

ReactIndexMessage(f, index_file, export_line) ==
  IF index_file \in DOMAIN f
  THEN IF ~HasLine(f[index_file], export_line) THEN <<"Updated index.ts">> ELSE << >>
  ELSE <<"Created index.ts">>

\* create_component(project_path, name, component_type, directory)
react_create_component(d, f, name, type, directory, answer) ==
  LET content == Tpl(<<"react/component", type>>, to_pascal_case(name))
      components_dir == <<C("src"), C(directory)>>
      d1 == MkdirP(d, components_dir)
      pascal_name == to_pascal_case(name)
      component_file == Append(components_dir, F(pascal_name, ".tsx"))
      index_file == Append(components_dir, C("index.ts"))
      export_line == ReactExportLine(pascal_name)
  IN  IF component_file \in DOMAIN f /\ Declined(answer)
      THEN [ok |-> FALSE, dirs |-> d1, files |-> f,
            out |-> <<"Warning: already exists", "Cancelled">>]
      ELSE LET f1 == WriteText(f, component_file, content)
           IN  [ok |-> TRUE, dirs |-> d1,
                files |-> ReactUpdateIndex(f1, index_file, export_line),
                out |-> (IF component_file \in DOMAIN f
                         THEN <<"Warning: already exists">> ELSE << >>)
                        \o <<"Created component">>
                        \o ReactIndexMessage(f1, index_file, export_line)]

\* The first of the two checks alone: the path exists.
NodeProjectErrorPathOnly(d, f) ==
  IF ~Exists(d, f, Root) THEN <<"Error: Project path does not exist">> ELSE << >>

\* The checks every single-project Node script makes first.
NodeProjectError(d, f) ==
  IF ~Exists(d, f, Root) THEN <<"Error: Project path does not exist">>
  ELSE IF ~Exists(d, f, <<C("package.json")>>)
       THEN <<"Error: Not a valid Node.js project (package.json not found)">>
       ELSE << >>

\* generate_component.py main()
react_generate_component_main(d, f, name, type, directory, answer) ==
  IF NodeProjectError(d, f) # << >>
  THEN Result(d, f, 1, NodeProjectError(d, f))
  ELSE LET r == react_create_component(d, f, name, type, directory, answer)
       IN  IF r.ok
           THEN Result(r.dirs, r.files, 0, r.out \o <<"Component generated successfully!">>)
           ELSE Result(r.dirs, r.files, 1, r.out)

\* Whether the run stopped at the overwrite prompt.
Prompted(out) == HasLine(out, "Warning: already exists")

ReactGenerateComponent ==
  \E name \in Names, type \in ReactComponentTypesTried, answer \in Answers :
    LET r == react_generate_component_main(dirs, files, name, type, "components", answer)
    IN  Run(Call("react/generate_component", name, type, "components", "",
                 IF Prompted(r.out) THEN answer ELSE ""), r)

ReactHookTypes == {"basic", "fetch", "local-storage", "debounce", "media-query", "toggle"}

\* The types the runs are tried with.
ReactHookTypesTried == {"basic", "fetch"}

\* create_hook(project_path, name, hook_type)
react_create_hook(d, f, name, type, answer) ==
  LET content == Tpl(<<"react/hook", type>>, ensure_use_prefix(name))
      hooks_dir == <<C("src"), C("hooks")>>
      d1 == MkdirP(d, hooks_dir)
      hook_name == ensure_use_prefix(name)
      hook_file == Append(hooks_dir, F(hook_name, ".ts"))
      index_file == Append(hooks_dir, C("index.ts"))
      export_line == ReactExportLine(hook_name)
  IN  IF hook_file \in DOMAIN f /\ Declined(answer)
      THEN [ok |-> FALSE, dirs |-> d1, files |-> f,
            out |-> <<"Warning: already exists", "Cancelled">>]
      ELSE LET f1 == WriteText(f, hook_file, content)
           IN  [ok |-> TRUE, dirs |-> d1,
                files |-> ReactUpdateIndex(f1, index_file, export_line),
                out |-> (IF hook_file \in DOMAIN f
                         THEN <<"Warning: already exists">> ELSE << >>)
                        \o <<"Created hook">>
                        \o ReactIndexMessage(f1, index_file, export_line)]

\* generate_hook.py main()
react_generate_hook_main(d, f, name, type, answer) ==
  IF NodeProjectError(d, f) # << >>
  THEN Result(d, f, 1, NodeProjectError(d, f))
  ELSE LET r == react_create_hook(d, f, name, type, answer)
       IN  IF r.ok
           THEN Result(r.dirs, r.files, 0, r.out \o <<"Hook generated successfully!">>)
           ELSE Result(r.dirs, r.files, 1, r.out)

ReactGenerateHook ==
  \E name \in Names, type \in ReactHookTypesTried, answer \in Answers :
    LET r == react_generate_hook_main(dirs, files, name, type, answer)
    IN  Run(Call("react/generate_hook", name, type, "", "",
                 IF Prompted(r.out) THEN answer ELSE ""), r)

ReactPageTypes == {"basic", "data", "form"}

\* The types the runs are tried with.
ReactPageTypesTried == {"basic", "data"}

\* The template create_page picks: the layout flag matters to the basic page only.
ReactPageTemplate(type, with_layout) ==
  IF type = "data" THEN <<"react/page", "data">>
  ELSE IF type = "form" THEN <<"react/page", "form">>
       ELSE IF with_layout THEN <<"react/page", "basic", "layout">>
            ELSE <<"react/page", "basic">>

\* create_page(project_path, name, page_type, with_layout)
react_create_page(d, f, name, type, with_layout, answer) ==
  LET pascal_name == to_pascal_case(name)
      content == Tpl(ReactPageTemplate(type, with_layout), pascal_name)
      pages_dir == <<C("src"), C("pages")>>
      d1 == MkdirP(d, pages_dir)
      page_file == Append(pages_dir, F(pascal_name \o <<"Page">>, ".tsx"))
  IN  IF page_file \in DOMAIN f /\ Declined(answer)
      THEN [ok |-> FALSE, dirs |-> d1, files |-> f,
            out |-> <<"Warning: already exists", "Cancelled">>]
      ELSE [ok |-> TRUE, dirs |-> d1, files |-> WriteText(f, page_file, content),
            out |-> (IF page_file \in DOMAIN f
                     THEN <<"Warning: already exists">> ELSE << >>)
                    \o <<"Created page">>]

\* generate_page.py main()
react_generate_page_main(d, f, name, type, with_layout, answer) ==
  IF NodeProjectError(d, f) # << >>
  THEN Result(d, f, 1, NodeProjectError(d, f))
  ELSE LET r == react_create_page(d, f, name, type, with_layout, answer)
       IN  IF r.ok
           THEN Result(r.dirs, r.files, 0, r.out \o <<"Page generated successfully!">>)
           ELSE Result(r.dirs, r.files, 1, r.out)

ReactGeneratePage ==
  \E name \in Names, type \in ReactPageTypesTried, with_layout \in BOOLEAN, answer \in Answers :
    LET r == react_generate_page_main(dirs, files, name, type, with_layout, answer)
    IN  Run(Call("react/generate_page", name, type,
                 IF with_layout THEN "--with-layout" ELSE "", "",
                 IF Prompted(r.out) THEN answer ELSE ""), r)

(***************************************************************************)
(* Monorepo: the package locators                                          *)
(***************************************************************************)

\* The --package values tried; "" is the option left out.
PackageOptions == {"", "frontend", "backend"}

\* packages_dir.iterdir(): the entries of packages/.
Entries(d, f, dir) == { q \in d \cup DOMAIN f : Len(q) = Len(dir) + 1 /\ Parent(q) = dir }

\* The orders iterdir() may yield the entries in (the order is the file system's).
ListingOrders(S) == { o \in [1..Cardinality(S) -> S] : \A i, j \in 1..Cardinality(S) : o[i] = o[j] => i = j }

\* The orders that matter to a run: iterdir() is reached only without --package.
Orders(d, f, package_name) ==
  IF package_name # "" \/ ~Exists(d, f, <<C("packages")>>) THEN { << >> }
  ELSE ListingOrders(Entries(d, f, <<C("packages")>>))

NoPackage == <<C("?")>>

\* The loop `for package_dir in packages_dir.iterdir(): if package_dir.is_dir()
\* and (package_dir / marker).exists(): return package_dir`.
RECURSIVE FirstWithMarker(_, _, _, _, _)
FirstWithMarker(d, f, order, i, marker) ==
  IF i > Len(order) THEN NoPackage
  ELSE IF IsDir(d, order[i]) /\ Exists(d, f, order[i] \o marker) THEN order[i]
       ELSE FirstWithMarker(d, f, order, i + 1, marker)

\* The locator without the re-validation of the marker below a named package.
find_package_unvalidated(d, f, package_name, order, marker) ==
  LET packages_dir == <<C("packages")>>
  IN  IF ~Exists(d, f, packages_dir) THEN NoPackage
      ELSE IF package_name # ""
           THEN IF Exists(d, f, Pkg(package_name)) THEN Pkg(package_name) ELSE NoPackage
           ELSE FirstWithMarker(d, f, order, 1, marker)

\* find_frontend_package / find_backend_package: the scripts differ only in
\* the marker they look for below the package.
find_package(d, f, package_name, order, marker) ==
  LET packages_dir == <<C("packages")>>
  IN  IF ~Exists(d, f, packages_dir) THEN NoPackage
      ELSE IF package_name # ""
           THEN IF Exists(d, f, Pkg(package_name)) /\ Exists(d, f, Pkg(package_name) \o marker)
                THEN Pkg(package_name)
                ELSE NoPackage
           ELSE FirstWithMarker(d, f, order, 1, marker)

\* The line main() prints once the locator has returned a package.
TargetLine(package_path) == <<"Target package:", package_path[Len(package_path)][1][1]>>

\* generate_component.py looks for src/components.
ComponentMarker == <<C("src"), C("components")>>

\* generate_hook.py and generate_page.py look for src.
SrcMarker == <<C("src")>>

(***************************************************************************)
(* Monorepo: generate_component.py, generate_hook.py, generate_page.py     *)
(***************************************************************************)

MonoComponentTypes == {"basic", "children", "state", "form", "card", "list", "modal"}

\* The types the runs are tried with.
MonoComponentTypesTried == {"basic", "modal"}

\* f"export {{ {name} }} from './{name}'\n"
MonoExportLine(ident) == [k |-> <<"export { } from">>, a |-> ident]

\* The index.ts update of the monorepo create_component and create_hook:
\* create the file with the export line, or append the line to it.
MonoUpdateIndex(f, index_path, export_line) ==
  IF index_path \notin DOMAIN f
  THEN WriteText(f, index_path, <<export_line>>)
  ELSE AppendText(f, index_path, <<export_line>>)

\* create_component(project_path, name, component_type, directory)
mono_create_component(d, f, package_path, name, type, directory) ==
  IF type \notin MonoComponentTypes
  THEN [ok |-> FALSE, dirs |-> d, files |-> f, out |-> <<"Unknown component type">>]
  ELSE LET pascal_name == to_pascal_case(name)
           content == Tpl(<<"monorepo/component", type>>, pascal_name)
           component_path == package_path
                               \o <<C("src"), C("components"), C(directory), F(pascal_name, ".tsx")>>
           d1 == MkdirP(d, Parent(component_path))
           f1 == WriteText(f, component_path, content)
           index_path == Append(Parent(component_path), C("index.ts"))
       IN  [ok |-> TRUE, dirs |-> d1,
            files |-> MonoUpdateIndex(f1, index_path, MonoExportLine(pascal_name)),
            out |-> <<"Created component",
                      IF index_path \notin DOMAIN f1 THEN "Created index.ts" ELSE "Updated index.ts">>]

\* generate_component.py main()
mono_generate_component_main(d, f, name, type, directory, package_name, order) ==
  LET package_path == find_package(d, f, package_name, order, ComponentMarker)
  IN  IF package_path = NoPackage
      THEN Result(d, f, 1, <<"No frontend package found">>)
      ELSE LET r == mono_create_component(d, f, package_path, name, type, directory)
           IN  IF ~r.ok THEN Result(r.dirs, r.files, 1, TargetLine(package_path) \o r.out)
               ELSE Result(r.dirs, r.files, 0,
                           TargetLine(package_path) \o r.out \o <<"Component generated successfully!">>)

MonoGenerateComponent ==
  \E name \in Names, type \in MonoComponentTypesTried, pkg \in PackageOptions :
   \E order \in Orders(dirs, files, pkg) :
    Run(Call("monorepo/generate_component", name, type, "components", pkg, ""),
        mono_generate_component_main(dirs, files, name, type, "components", pkg, order))

MonoHookTypes ==
  {"basic", "fetch", "local-storage", "debounce", "throttle", "toggle", "previous", "async"}

\* The types the runs are tried with.
MonoHookTypesTried == {"basic", "async"}

\* create_hook(project_path, name, hook_type)
mono_create_hook(d, f, package_path, name, type) ==
  IF type \notin MonoHookTypes
  THEN [ok |-> FALSE, dirs |-> d, files |-> f, out |-> <<"Unknown hook type">>]
  ELSE LET camel_name == to_camel_case(name)
           content == Tpl(<<"monorepo/hook", type>>, camel_name)
           hook_path == package_path \o <<C("src"), C("hooks"), F(camel_name, ".ts")>>
           d1 == MkdirP(d, Parent(hook_path))
           f1 == WriteText(f, hook_path, content)
           index_path == Append(Parent(hook_path), C("index.ts"))
       IN  [ok |-> TRUE, dirs |-> d1,
            files |-> MonoUpdateIndex(f1, index_path, MonoExportLine(camel_name)),
            out |-> <<"Created hook",
                      IF index_path \notin DOMAIN f1 THEN "Created index.ts" ELSE "Updated index.ts">>]

\* generate_hook.py main()
mono_generate_hook_main(d, f, name, type, package_name, order) ==
  LET package_path == find_package(d, f, package_name, order, SrcMarker)
  IN  IF package_path = NoPackage
      THEN Result(d, f, 1, <<"No frontend package found">>)
      ELSE LET r == mono_create_hook(d, f, package_path, name, type)
           IN  IF ~r.ok THEN Result(r.dirs, r.files, 1, TargetLine(package_path) \o r.out)
               ELSE Result(r.dirs, r.files, 0,
                           TargetLine(package_path) \o r.out \o <<"Hook generated successfully!">>)

MonoGenerateHook ==
  \E name \in Names, type \in MonoHookTypesTried, pkg \in PackageOptions :
   \E order \in Orders(dirs, files, pkg) :
    Run(Call("monorepo/generate_hook", name, type, "", pkg, ""),
        mono_generate_hook_main(dirs, files, name, type, pkg, order))

MonoPageTypes == {"basic", "list", "detail", "form", "dashboard"}

\* The types the runs are tried with.
MonoPageTypesTried == {"basic", "dashboard"}

\* create_page(project_path, name, page_type)
mono_create_page(d, f, package_path, name, type) ==
  IF type \notin MonoPageTypes
  THEN [ok |-> FALSE, dirs |-> d, files |-> f, out |-> <<"Unknown page type">>]
  ELSE LET pascal_name == to_pascal_case(name)
           content == Tpl(<<"monorepo/page", type>>, pascal_name)
           page_path == package_path \o <<C("src"), C("pages"), F(pascal_name, ".tsx")>>
       IN  [ok |-> TRUE, dirs |-> MkdirP(d, Parent(page_path)),
            files |-> WriteText(f, page_path, content), out |-> <<"Created page">>]

\* generate_page.py main()
mono_generate_page_main(d, f, name, type, package_name, order) ==
  LET package_path == find_package(d, f, package_name, order, SrcMarker)
  IN  IF package_path = NoPackage
      THEN Result(d, f, 1, <<"No frontend package found">>)
      ELSE LET r == mono_create_page(d, f, package_path, name, type)
           IN  IF ~r.ok THEN Result(r.dirs, r.files, 1, TargetLine(package_path) \o r.out)
               ELSE Result(r.dirs, r.files, 0,
                           TargetLine(package_path) \o r.out \o <<"Page generated successfully!">>)

MonoGeneratePage ==
  \E name \in Names, type \in MonoPageTypesTried, pkg \in PackageOptions :
   \E order \in Orders(dirs, files, pkg) :
    Run(Call("monorepo/generate_page", name, type, "", pkg, ""),
        mono_generate_page_main(dirs, files, name, type, pkg, order))

(***************************************************************************)
(* Monorepo: add_component.py                                              *)
(***************************************************************************)

\* add_component.py looks for components.json.
ComponentsJsonMarker == <<C("components.json")>>

\* The presets of add_preset.
presets ==
  ("forms" :> <<"button", "input", "label", "select", "checkbox", "radio-group", "switch", "textarea", "form">>)
  @@ ("data" :> <<"table", "card", "badge", "avatar", "skeleton", "pagination">>)
  @@ ("overlay" :> <<"dialog", "alert-dialog", "sheet", "popover", "tooltip", "hover-card">>)
  @@ ("navigation" :> <<"tabs", "accordion", "dropdown-menu", "menubar", "navigation-menu", "command">>)
  @@ ("feedback" :> <<"alert", "toast", "sonner", "progress">>)
  @@ ("layout" :> <<"separator", "scroll-area", "resizable", "aspect-ratio">>)
  @@ ("essential" :> <<"button", "card", "input", "label", "dialog", "alert", "toast">>)

\* run_command("npx shadcn@latest add <component> -y", cwd=package_path): an
\* external program; it fails and leaves the tree alone, or succeeds and
\* adds the component below src/components/ui of the package.
run_command(d, f, package_path, component, succeeded) ==
  IF succeeded
  THEN LET target == package_path \o <<C("src"), C("components"), C("ui"),
                                        F(<<component>>, ".tsx")>>
       IN  [ok |-> TRUE, dirs |-> MkdirP(d, Parent(target)),
            files |-> WriteText(f, target, Tpl(<<"shadcn/ui">>, <<component>>)),
            out |-> <<"Running: npx shadcn@latest add", component>>]
  ELSE [ok |-> FALSE, dirs |-> d, files |-> f,
        out |-> <<"Running: npx shadcn@latest add", component, "Error:">>]

\* A loop that ends at the first component that fails.
RECURSIVE AddFrom(_, _, _, _, _, _)
AddUntilFailure(d, f, package_path, components, outcomes, i) ==
  IF i > Len(components) THEN [dirs |-> d, files |-> f, out |-> << >>]
  ELSE LET r == run_command(d, f, package_path, components[i], outcomes[i])
           rest == AddFrom(r.dirs, r.files, package_path, components, outcomes, i + 1)
       IN  IF ~r.ok
           THEN [dirs |-> r.dirs, files |-> r.files,
                 out |-> <<"Adding", components[i]>> \o r.out
                           \o <<"Failed to add, continuing...", components[i]>>]
           ELSE [dirs |-> rest.dirs, files |-> rest.files,
                 out |-> <<"Adding", components[i]>> \o r.out
                           \o <<"Added", components[i]>> \o rest.out]

\* The loop of add_components: one command per component, in order; a
\* failure is reported and the loop continues.
AddFrom(d, f, package_path, components, outcomes, i) ==
  IF i > Len(components) THEN [dirs |-> d, files |-> f, out |-> << >>]
  ELSE LET r == run_command(d, f, package_path, components[i], outcomes[i])
           rest == AddFrom(r.dirs, r.files, package_path, components, outcomes, i + 1)
       IN  [dirs |-> rest.dirs, files |-> rest.files,
            out |-> <<"Adding", components[i]>> \o r.out
                      \o (IF r.ok THEN <<"Added", components[i]>>
                          ELSE <<"Failed to add, continuing...", components[i]>>)
                      \o rest.out]

\* add_components(package_path, components): always True.
add_components(d, f, package_path, components, outcomes) ==
  LET r == AddFrom(d, f, package_path, components, outcomes, 1)
  IN  [ok |-> TRUE, dirs |-> r.dirs, files |-> r.files,
       out |-> <<"Adding components to", package_path[Len(package_path)][1][1]>> \o r.out]

\* add_preset(package_path, preset)
add_preset(d, f, package_path, preset, outcomes) ==
  IF preset \notin DOMAIN presets
  THEN [ok |-> FALSE, dirs |-> d, files |-> f,
        out |-> <<"Unknown preset", "Available presets:">>]
  ELSE LET r == add_components(d, f, package_path, presets[preset], outcomes)
       IN  [ok |-> r.ok, dirs |-> r.dirs, files |-> r.files,
            out |-> <<"Adding preset", preset>> \o r.out]

\* The commands a run issues when the package is found: those of the preset,
\* then those of the components named.
Requested(components, preset) ==
  (IF preset \in DOMAIN presets THEN presets[preset] ELSE << >>) \o components

\* add_component.py main() of the monorepo skill; outcomes[i] tells whether
\* the i-th command issued succeeds.
mono_add_component_main(d, f, components, preset, list, package_name, order, outcomes) ==
  IF list THEN Result(d, f, 0, <<"Available shadcn/ui Components:">>)
  ELSE
    LET package_path == find_package(d, f, package_name, order, ComponentsJsonMarker)
        n == IF preset \in DOMAIN presets THEN Len(presets[preset]) ELSE 0
        p == IF preset = "" THEN [ok |-> TRUE, dirs |-> d, files |-> f, out |-> << >>]
             ELSE add_preset(d, f, package_path, preset, SubSeq(outcomes, 1, n))
        c == IF components = << >> THEN [ok |-> TRUE, dirs |-> p.dirs, files |-> p.files, out |-> << >>]
             ELSE add_components(p.dirs, p.files, package_path, components,
                                 SubSeq(outcomes, n + 1, Len(outcomes)))
    IN  IF package_path = NoPackage
        THEN Result(d, f, 1, <<"No frontend package found">>)
        ELSE IF ~p.ok
             THEN Result(p.dirs, p.files, 1, TargetLine(package_path) \o p.out)
             ELSE IF preset = "" /\ components = << >>
                  THEN Result(c.dirs, c.files, 1,
                              TargetLine(package_path)
                                \o <<"Please specify components to add or use --preset">>)
                  ELSE Result(c.dirs, c.files, 0,
                              TargetLine(package_path) \o p.out \o c.out
                                \o <<"Components added successfully!">>)

\* The requests the runs are tried with: up to MaxComponents component
\* names, or an unknown preset, or --list, or nothing.
MaxComponents == 2

ComponentNames == {"button", "card"}

ComponentArgs == UNION { [1..n -> ComponentNames] : n \in 0..MaxComponents }

PresetsTried == {"", "nope"}

MonoAddComponent ==
  \E components \in ComponentArgs, preset \in PresetsTried, list \in BOOLEAN,
     pkg \in PackageOptions :
    /\ (list \/ preset # "") => components = << >>
    /\ list => preset = ""
    /\ \E order \in Orders(dirs, files, pkg) :
        \E outcomes \in [1..Len(Requested(components, preset)) -> BOOLEAN] :
          Run(Call("monorepo/add_component", << >>, "",
                   [components |-> components, preset |-> preset, list |-> list], pkg, ""),
              mono_add_component_main(dirs, files, components, preset, list, pkg, order,
                                      outcomes))

(***************************************************************************)
(* Gin: add_infrastructure.py, add_middleware.py, generate_domain.py       *)
(***************************************************************************)

\* The checks add_infrastructure.py, add_middleware.py and add_auth.py make
\* on the project path.
GoProjectError(d, f) ==
  IF ~Exists(d, f, Root) THEN <<"Error: Project path does not exist">>
  ELSE IF ~Exists(d, f, <<C("go.mod")>>) THEN <<"Error: Not a Go project (go.mod not found)">>
       ELSE << >>

InfraTypes == {"storage", "cache", "queue", "email"}

\* SUPPORTED_TYPES
SUPPORTED_TYPES(type) ==
  CASE type = "storage" -> {"local", "s3", "gcs"}
    [] type = "cache" -> {"redis", "memory"}
    [] type = "queue" -> {"redis", "kafka", "rabbitmq"}
    [] type = "email" -> {"smtp", "sendgrid"}

\* The --provider values tried: every listed provider and one that is listed nowhere.
ProvidersTried ==
  UNION { SUPPORTED_TYPES(t) : t \in InfraTypes } \cup {"azure"}

NoContent == << >>

\* The interface text create_infrastructure selects (None for queue and email).
infra_interface_content(type) ==
  IF type = "storage" THEN Tpl(<<"gin/storage", "interface">>, << >>)
  ELSE IF type = "cache" THEN Tpl(<<"gin/cache", "interface">>, << >>)
       ELSE NoContent

\* The implementation text create_infrastructure selects (None when no
\* branch of the if/elif chain matches).
infra_impl_content(type, provider) ==
  IF type = "storage"
  THEN IF provider \in {"local", "s3", "gcs"} THEN Tpl(<<"gin/storage", provider>>, << >>)
       ELSE NoContent
  ELSE IF type = "cache"
       THEN IF provider \in {"redis", "memory"} THEN Tpl(<<"gin/cache", provider>>, << >>)
            ELSE NoContent
       ELSE NoContent

\* get_dependencies with the redis entries left out of its table.
infra_dependencies_without_redis(type, provider) ==
  CASE type = "storage" /\ provider = "s3" ->
         << "github.com/aws/aws-sdk-go-v2/aws", "github.com/aws/aws-sdk-go-v2/config",
            "github.com/aws/aws-sdk-go-v2/credentials", "github.com/aws/aws-sdk-go-v2/service/s3" >>
    [] type = "storage" /\ provider = "gcs" -> << "cloud.google.com/go/storage" >>
    [] OTHER -> << >>

\* get_dependencies(infra_type, provider) of add_infrastructure.py
infra_dependencies(type, provider) ==
  CASE type = "storage" /\ provider = "s3" ->
         << "github.com/aws/aws-sdk-go-v2/aws", "github.com/aws/aws-sdk-go-v2/config",
            "github.com/aws/aws-sdk-go-v2/credentials", "github.com/aws/aws-sdk-go-v2/service/s3" >>
    [] type = "storage" /\ provider = "gcs" -> << "cloud.google.com/go/storage" >>
    [] type = "cache" /\ provider = "redis" -> << "github.com/redis/go-redis/v9" >>
    [] type = "queue" /\ provider = "redis" -> << "github.com/redis/go-redis/v9" >>
    [] type = "queue" /\ provider = "kafka" -> << "github.com/segmentio/kafka-go" >>
    [] type = "queue" /\ provider = "rabbitmq" -> << "github.com/rabbitmq/amqp091-go" >>
    [] type = "email" /\ provider = "sendgrid" -> << "github.com/sendgrid/sendgrid-go" >>
    [] OTHER -> << >>

\* The lines that list the dependencies: a heading, then one line per dependency.
DependencyLines(deps) ==
  IF deps = << >> THEN << >> ELSE <<"Required dependencies:">> \o deps

\* create_infrastructure without the `if not interface_content or not
\* impl_content` return: both files are written whatever the contents are.
create_infrastructure_unchecked(d, f, type, provider) ==
  LET infra_dir == <<C("internal"), C("infrastructure"), C(type)>>
      f1 == WriteText(f, Append(infra_dir, F(<<type>>, ".go")), infra_interface_content(type))
      f2 == WriteText(f1, Append(infra_dir, F(<<provider>>, ".go")),
                      infra_impl_content(type, provider))
  IN  Result(MkdirP(d, infra_dir), f2, 0,
             <<"Created interface", "Created implementation">>
               \o DependencyLines(infra_dependencies(type, provider))
               \o <<"infrastructure added successfully!">>)

\* create_infrastructure(project_path, infra_type, provider)
create_infrastructure(d, f, type, provider) ==
  LET infra_dir == <<C("internal"), C("infrastructure"), C(type)>>
      d1 == MkdirP(d, infra_dir)
      interface_content == infra_interface_content(type)
      impl_content == infra_impl_content(type, provider)
  IN  IF interface_content = NoContent \/ impl_content = NoContent
      THEN Result(d1, f, 0, <<"Unsupported combination">>)
      ELSE LET interface_file == Append(infra_dir, F(<<type>>, ".go"))
               impl_file == Append(infra_dir, F(<<provider>>, ".go"))
               f1 == WriteText(f, interface_file, interface_content)
               f2 == WriteText(f1, impl_file, impl_content)
           IN  Result(d1, f2, 0,
                      <<"Created interface", "Created implementation">>
                        \o DependencyLines(infra_dependencies(type, provider))
                        \o <<"infrastructure added successfully!">>)

\* add_infrastructure.py main()
add_infrastructure_main(d, f, type, provider) ==
  IF provider \notin SUPPORTED_TYPES(type)
  THEN Result(d, f, 1, <<"Error: Unsupported provider", "Supported providers:">>)
  ELSE IF GoProjectError(d, f) # << >>
       THEN Result(d, f, 1, GoProjectError(d, f))
       ELSE create_infrastructure(d, f, type, provider)

GinAddInfrastructure ==
  \E type \in InfraTypes, provider \in ProvidersTried :
    Run(Call("gin/add_infrastructure", << >>, type, provider, "", ""),
        add_infrastructure_main(dirs, files, type, provider))

\* SUPPORTED_MIDDLEWARES
SUPPORTED_MIDDLEWARES ==
  {"cors", "ratelimit", "logging", "recovery", "timeout", "compression",
   "security", "requestid", "metrics", "validation"}

\* The keys of middleware_map in get_middleware_content.
MiddlewareMapKeys ==
  {"cors", "ratelimit", "logging", "recovery", "timeout", "compression",
   "security", "requestid", "metrics", "validation"}

\* get_middleware_content(middleware_type)
get_middleware_content(type) ==
  IF type \in MiddlewareMapKeys THEN Tpl(<<"gin/middleware", type>>, << >>) ELSE NoContent

\* get_dependencies(middleware_type) of add_middleware.py
middleware_dependencies(type) ==
  CASE type = "cors" -> << "github.com/gin-contrib/cors" >>
    [] type = "ratelimit" -> << "golang.org/x/time/rate" >>
    [] type = "compression" -> << "github.com/gin-contrib/gzip" >>
    [] type = "requestid" -> << "github.com/google/uuid" >>
    [] type = "metrics" -> << "github.com/prometheus/client_golang/prometheus",
                              "github.com/prometheus/client_golang/prometheus/promauto" >>
    [] type = "validation" -> << "github.com/go-playground/validator/v10" >>
    [] OTHER -> << >>

\* create_middleware(project_path, middleware_type)
create_middleware(d, f, type) ==
  LET middleware_dir == <<C("pkg"), C("middleware")>>
      d1 == MkdirP(d, middleware_dir)
      content == get_middleware_content(type)
  IN  IF content = NoContent
      THEN Result(d1, f, 0, <<"Unsupported middleware type">>)
      ELSE Result(d1, WriteText(f, Append(middleware_dir, F(<<type>>, ".go")), content), 0,
                  <<"Created middleware">> \o DependencyLines(middleware_dependencies(type))
                    \o <<"middleware added successfully!">>)

\* add_middleware.py main()
add_middleware_main(d, f, type) ==
  IF GoProjectError(d, f) # << >>
  THEN Result(d, f, 1, GoProjectError(d, f))
  ELSE create_middleware(d, f, type)

\* The middleware types the runs are tried with.
MiddlewaresTried == {"cors", "logging", "metrics"}

GinAddMiddleware ==
  \E type \in MiddlewaresTried :
    Run(Call("gin/add_middleware", << >>, type, "", "", ""),
        add_middleware_main(dirs, files, type))

(***************************************************************************)
(* Gin: the type mappers and the fields of a domain (strings are sequences *)
(* of characters)                                                          *)
(***************************************************************************)

\* The whitespace str.strip() removes, as far as the inputs hold any.
IsSpace(c) == c \in {" ", "\t"}

RECURSIVE LStrip(_)
LStrip(s) == IF s # << >> /\ IsSpace(Head(s)) THEN LStrip(Tail(s)) ELSE s

RECURSIVE RStrip(_)
RStrip(s) ==
  IF s # << >> /\ IsSpace(s[Len(s)]) THEN RStrip(SubSeq(s, 1, Len(s) - 1)) ELSE s

\* str.strip()
Strip(s) == RStrip(LStrip(s))

\* str.startswith(prefix)
StartsWith(s, prefix) == Len(s) >= Len(prefix) /\ SubSeq(s, 1, Len(prefix)) = prefix

\* `sub in s` for strings
Contains(s, sub) ==
  \E i \in 1..(Len(s) - Len(sub) + 1) : SubSeq(s, i, i + Len(sub) - 1) = sub

\* dict.get(key, default) that forgets the default.
dict_get_no_default(m, key, default) == IF key \in DOMAIN m THEN m[key] ELSE << >>

\* dict.get(key, default)
dict_get(m, key, default) == IF key \in DOMAIN m THEN m[key] ELSE default

\* GoTypeMapper.TYPE_MAP
TYPE_MAP ==
  (<<"s", "t", "r", "i", "n", "g">> :> <<"s", "t", "r", "i", "n", "g">>)
  @@ (<<"s", "t", "r">> :> <<"s", "t", "r", "i", "n", "g">>)
  @@ (<<"t", "e", "x", "t">> :> <<"s", "t", "r", "i", "n", "g">>)
  @@ (<<"i", "n", "t">> :> <<"i", "n", "t">>)
  @@ (<<"i", "n", "t", "e", "g", "e", "r">> :> <<"i", "n", "t">>)
  @@ (<<"i", "n", "t", "3", "2">> :> <<"i", "n", "t", "3", "2">>)
  @@ (<<"i", "n", "t", "6", "4">> :> <<"i", "n", "t", "6", "4">>)
  @@ (<<"u", "i", "n", "t">> :> <<"u", "i", "n", "t">>)
  @@ (<<"u", "i", "n", "t", "3", "2">> :> <<"u", "i", "n", "t", "3", "2">>)
  @@ (<<"u", "i", "n", "t", "6", "4">> :> <<"u", "i", "n", "t", "6", "4">>)
  @@ (<<"f", "l", "o", "a", "t">> :> <<"f", "l", "o", "a", "t", "6", "4">>)
  @@ (<<"f", "l", "o", "a", "t", "3", "2">> :> <<"f", "l", "o", "a", "t", "3", "2">>)
  @@ (<<"f", "l", "o", "a", "t", "6", "4">> :> <<"f", "l", "o", "a", "t", "6", "4">>)
  @@ (<<"d", "e", "c", "i", "m", "a", "l">> :> <<"f", "l", "o", "a", "t", "6", "4">>)
  @@ (<<"n", "u", "m", "b", "e", "r">> :> <<"f", "l", "o", "a", "t", "6", "4">>)
  @@ (<<"b", "o", "o", "l">> :> <<"b", "o", "o", "l">>)
  @@ (<<"b", "o", "o", "l", "e", "a", "n">> :> <<"b", "o", "o", "l">>)
  @@ (<<"t", "i", "m", "e">> :> <<"t", "i", "m", "e", ".", "T", "i", "m", "e">>)
  @@ (<<"d", "a", "t", "e", "t", "i", "m", "e">> :> <<"t", "i", "m", "e", ".", "T", "i", "m", "e">>)
  @@ (<<"t", "i", "m", "e", "s", "t", "a", "m", "p">> :> <<"t", "i", "m", "e", ".", "T", "i", "m", "e">>)
  @@ (<<"d", "a", "t", "e">> :> <<"t", "i", "m", "e", ".", "T", "i", "m", "e">>)
  @@ (<<"u", "u", "i", "d">> :> <<"u", "u", "i", "d", ".", "U", "U", "I", "D">>)
  @@ (<<"g", "u", "i", "d">> :> <<"u", "u", "i", "d", ".", "U", "U", "I", "D">>)
  @@ (<<"b", "y", "t", "e", "s">> :> <<"[", "]", "b", "y", "t", "e">>)
  @@ (<<"b", "i", "n", "a", "r", "y">> :> <<"[", "]", "b", "y", "t", "e">>)

\* A map_type whose wrapped results lose the imports of the inner type.
RECURSIVE map_type(_)
map_type_wrapper_without_imports(type_str) ==
  LET t == Strip(LowerAll(type_str))
  IN  IF StartsWith(t, <<"[", "]">>)
      THEN [go_type |-> <<"[", "]">> \o map_type(SubSeq(t, 3, Len(t))).go_type,
            imports |-> << >>]
      ELSE IF StartsWith(t, <<"*">>)
           THEN [go_type |-> <<"*">> \o map_type(SubSeq(t, 2, Len(t))).go_type,
                 imports |-> << >>]
           ELSE LET go_type == dict_get(TYPE_MAP, t, <<"s", "t", "r", "i", "n", "g">>)
                IN  [go_type |-> go_type,
                     imports |-> IF Contains(go_type, <<"t", "i", "m", "e", ".", "T", "i", "m", "e">>)
                                 THEN <<"time">>
                                 ELSE IF Contains(go_type, <<"u", "u", "i", "d", ".", "U", "U", "I", "D">>)
                                      THEN <<"github.com/google/uuid">>
                                      ELSE << >>]

\* GoTypeMapper.map_type: (go_type, required imports).
map_type(type_str) ==
  LET t == Strip(LowerAll(type_str))
  IN  IF StartsWith(t, <<"[", "]">>)
      THEN LET inner == map_type(SubSeq(t, 3, Len(t)))
           IN  [go_type |-> <<"[", "]">> \o inner.go_type, imports |-> inner.imports]
      ELSE IF StartsWith(t, <<"*">>)
           THEN LET inner == map_type(SubSeq(t, 2, Len(t)))
                IN  [go_type |-> <<"*">> \o inner.go_type, imports |-> inner.imports]
           ELSE LET go_type == dict_get(TYPE_MAP, t, <<"s", "t", "r", "i", "n", "g">>)
                IN  [go_type |-> go_type,
                     imports |-> IF Contains(go_type, <<"t", "i", "m", "e", ".", "T", "i", "m", "e">>)
                                 THEN <<"time">>
                                 ELSE IF Contains(go_type, <<"u", "u", "i", "d", ".", "U", "U", "I", "D">>)
                                      THEN <<"github.com/google/uuid">>
                                      ELSE << >>]

\* The type_mapping table of Field._map_type.
type_mapping ==
  (<<"s", "t", "r", "i", "n", "g">> :> <<"s", "t", "r", "i", "n", "g">>)
  @@ (<<"i", "n", "t">> :> <<"i", "n", "t">>)
  @@ (<<"i", "n", "t", "6", "4">> :> <<"i", "n", "t", "6", "4">>)
  @@ (<<"f", "l", "o", "a", "t", "6", "4">> :> <<"f", "l", "o", "a", "t", "6", "4">>)
  @@ (<<"b", "o", "o", "l">> :> <<"b", "o", "o", "l">>)
  @@ (<<"t", "i", "m", "e">> :> <<"t", "i", "m", "e", ".", "T", "i", "m", "e">>)
  @@ (<<"u", "u", "i", "d">> :> <<"u", "u", "i", "d", ".", "U", "U", "I", "D">>)

\* Field._map_type
Field_map_type(field_type) == dict_get(type_mapping, LowerAll(field_type), <<"s", "t", "r", "i", "n", "g">>)

\* char.isupper()
IsUpper(c) == Lower(c) # c

\* Field._to_snake_case and to_snake_case: "_" before every upper-case
\* character but the first, everything lower-cased.
RECURSIVE SnakeFrom(_, _)
SnakeFrom(name, i) ==
  IF i > Len(name) THEN << >>
  ELSE (IF IsUpper(name[i]) /\ i > 1 THEN <<"_">> ELSE << >>)
         \o <<Lower(name[i])>> \o SnakeFrom(name, i + 1)

\* A conversion that lower-cases and inserts nothing.
to_snake_case_without_underscores(name) == LowerAll(name)

to_snake_case(name) == SnakeFrom(name, 1)

\* The tags Field._generate_gorm_tag returns, by the exact field_type.
GormTags ==
  (<<"s", "t", "r", "i", "n", "g">> :> <<"t", "y", "p", "e", ":", "v", "a", "r", "c", "h", "a", "r", "(", "2", "5", "5", ")">>)
  @@ (<<"i", "n", "t">> :> <<"t", "y", "p", "e", ":", "b", "i", "g", "i", "n", "t">>)
  @@ (<<"i", "n", "t", "6", "4">> :> <<"t", "y", "p", "e", ":", "b", "i", "g", "i", "n", "t">>)
  @@ (<<"f", "l", "o", "a", "t", "6", "4">> :> <<"t", "y", "p", "e", ":", "d", "e", "c", "i", "m", "a", "l", "(", "1", "0", ",", "2", ")">>)
  @@ (<<"b", "o", "o", "l">> :> <<"t", "y", "p", "e", ":", "b", "o", "o", "l", "e", "a", "n", ";", "d", "e", "f", "a", "u", "l", "t", ":", "f", "a", "l", "s", "e">>)
  @@ (<<"t", "i", "m", "e">> :> <<"t", "y", "p", "e", ":", "t", "i", "m", "e", "s", "t", "a", "m", "p">>)
  @@ (<<"u", "u", "i", "d">> :> <<"t", "y", "p", "e", ":", "u", "u", "i", "d">>)

\* Field._generate_gorm_tag
Field_generate_gorm_tag(field_type) ==
  IF field_type \in DOMAIN GormTags THEN GormTags[field_type] ELSE << >>

\* Field.__init__
Field(name, field_type) ==
  [name |-> name,
   field_type |-> field_type,
   go_type |-> Field_map_type(field_type),
   json_tag |-> to_snake_case(name),
   gorm_tag |-> Field_generate_gorm_tag(field_type)]

\* The character U+0060, which a TLA+ string cannot hold.
Backtick == "<backtick>"

\* Field.to_struct_field; the fixed text between the interpolated strings is
\* kept in pieces.
to_struct_field(field) ==
  <<"\t">> \o Capitalize(field.name) \o <<" ">> \o field.go_type
    \o <<" ", Backtick, "json:\"">> \o field.json_tag
    \o <<"\" gorm:\"">> \o field.gorm_tag \o <<"\"", Backtick>>

\* str.split(sep) for a one-character separator: the pieces between the
\* separators, empty ones included.
RECURSIVE SplitFrom(_, _, _, _)
SplitFrom(s, sep, i, cur) ==
  IF i > Len(s) THEN << cur >>
  ELSE IF s[i] = sep THEN << cur >> \o SplitFrom(s, sep, i + 1, << >>)
       ELSE SplitFrom(s, sep, i + 1, Append(cur, s[i]))

Split(s, sep) == SplitFrom(s, sep, 1, << >>)

\* The index of the first ":" of a token that holds one.
FirstColon(field_def) ==
  CHOOSE i \in 1..Len(field_def) :
    field_def[i] = ":" /\ \A j \in 1..(i - 1) : field_def[j] # ":"

\* The loop of parse_fields over the tokens of fields_str.split(',').
RECURSIVE FieldsFrom(_, _)
FieldsFrom(tokens, i) ==
  IF i > Len(tokens) THEN << >>
  ELSE LET field_def == Strip(tokens[i])
       IN  IF ~Contains(field_def, <<":">>) THEN FieldsFrom(tokens, i + 1)
           ELSE LET c == FirstColon(field_def)
                    name == SubSeq(field_def, 1, c - 1)
                    field_type == SubSeq(field_def, c + 1, Len(field_def))
                IN  << Field(Strip(name), Strip(field_type)) >> \o FieldsFrom(tokens, i + 1)

\* parse_fields
parse_fields(fields_str) ==
  IF fields_str = << >> THEN << >> ELSE FieldsFrom(Split(fields_str, ","), 1)

\* capitalize(s): s[0].upper() + s[1:]
capitalize(s) == IF s = << >> THEN s ELSE <<Upper(s[1])>> \o Tail(s)

\* One line of a Go file: its fixed text, in pieces, and the string
\* interpolated into it.
GoLine(text, a) == [k |-> text, a |-> a]

\* The import lines of generate_entity: decided by the exact field_type.
EntityImports(fields) ==
  (IF \E i \in 1..Len(fields) : fields[i].field_type = <<"t", "i", "m", "e">>
   THEN << <<"\t", "\"", "t", "i", "m", "e", "\"">> >> ELSE << >>)
  \o (IF \E i \in 1..Len(fields) : fields[i].field_type = <<"u", "u", "i", "d">>
      THEN << <<"\t", "\"", "g", "i", "t", "h", "u", "b", ".", "c", "o", "m", "/", "g", "o", "o", "g", "l", "e", "/", "u", "u", "i", "d", "\"">> >> ELSE << >>)

\* "\n".join(f.to_struct_field() for f in fields): one line per field, and
\* one empty line when there is no field.
StructFieldLines(fields) ==
  IF fields = << >> THEN << GoLine(<<"">>, << >>) >>
  ELSE [i \in 1..Len(fields) |-> GoLine(<<"field">>, to_struct_field(fields[i]))]

\* generate_entity: the lines of the entity file.
generate_entity(domain_name, fields, module_path) ==
  LET imports == EntityImports(fields)
      import_block ==
        IF imports = << >> THEN << >>
        ELSE << GoLine(<<"import (">>, << >>) >>
               \o [i \in 1..Len(imports) |-> GoLine(<<"import">>, imports[i])]
               \o << GoLine(<<")">>, << >>), GoLine(<<"">>, << >>) >>
  IN  << GoLine(<<"package entity">>, << >>), GoLine(<<"">>, << >>) >>
        \o import_block
        \o << GoLine(<<"type struct {">>, capitalize(domain_name)),
              GoLine(<<"\tID        uint   ", Backtick, "json:\"id\" gorm:\"primaryKey\"", Backtick>>, << >>) >>
        \o StructFieldLines(fields)
        \o << GoLine(<<"\tCreatedAt time.Time ", Backtick, "json:\"created_at\" gorm:\"autoCreateTime\"", Backtick>>, << >>),
              GoLine(<<"\tUpdatedAt time.Time ", Backtick, "json:\"updated_at\" gorm:\"autoUpdateTime\"", Backtick>>, << >>),
              GoLine(<<"}">>, << >>),
              GoLine(<<"">>, << >>),
              GoLine(<<"func TableName() string {">>, capitalize(domain_name)),
              GoLine(<<"\treturn">>, to_snake_case(domain_name) \o <<"s">>),
              GoLine(<<"}">>, << >>) >>

(***************************************************************************)
(* Gin: generate_domain.py main()                                          *)
(***************************************************************************)

\* The module path main() reads from go.mod: the second word of the first
\* line that starts with "module ", "" when there is none.
ModulePath(content) ==
  IF \E i \in 1..Len(content) : content[i].k = <<"module">>
  THEN content[CHOOSE i \in 1..Len(content) :
                 /\ content[i].k = <<"module">>
                 /\ \A j \in 1..(i - 1) : content[j].k # <<"module">>].a
  ELSE << >>

\* Writes that take effect only if every one of them can be made.
WriteAllOrNothing(d, f, writes, i) ==
  IF \E j \in i..Len(writes) : ~CanWrite(d, writes[j].path)
  THEN [files |-> f, raised |-> TRUE,
        written |-> (CHOOSE j \in i..Len(writes) :
                       /\ ~CanWrite(d, writes[j].path)
                       /\ \A h \in i..(j - 1) : CanWrite(d, writes[h].path)) - 1]
  ELSE [files |-> [q \in DOMAIN f \cup { writes[j].path : j \in i..Len(writes) } |->
                     IF \E j \in i..Len(writes) : writes[j].path = q
                     THEN writes[CHOOSE j \in i..Len(writes) : writes[j].path = q].text
                     ELSE f[q]],
        raised |-> FALSE, written |-> Len(writes)]

\* Path.write_text for each file of the list in turn; the first one whose
\* parent directory is missing raises FileNotFoundError and ends the run.
RECURSIVE WriteInTurn(_, _, _, _)
WriteInTurn(d, f, writes, i) ==
  IF i > Len(writes) THEN [files |-> f, raised |-> FALSE, written |-> i - 1]
  ELSE IF ~CanWrite(d, writes[i].path) THEN [files |-> f, raised |-> TRUE, written |-> i - 1]
       ELSE WriteInTurn(d, WriteText(f, writes[i].path, writes[i].text), writes, i + 1)

\* The domain names and --fields strings the runs are tried with.
DomainNames == { <<"a", "b">>, <<"C">> }

FieldArgs == { << >>, <<"n", ":", "int">> }

\* The five files of a domain, in the order main() writes them.
DomainWrites(domain_name, fields, module_path) ==
  << [path |-> <<C("internal"), C("domain"), C("entity"), F(domain_name, ".go")>>,
      text |-> generate_entity(domain_name, parse_fields(fields), module_path)],
     [path |-> <<C("internal"), C("domain"), C("repository"),
                 F(domain_name \o <<"_repository">>, ".go")>>,
      text |-> Tpl(<<"gin/repository interface">>, domain_name \o <<"|">> \o module_path)],
     [path |-> <<C("internal"), C("infrastructure"), C("repository"),
                 F(domain_name \o <<"_repository">>, ".go")>>,
      text |-> Tpl(<<"gin/repository impl">>, domain_name \o <<"|">> \o module_path)],
     [path |-> <<C("internal"), C("usecase"), F(domain_name \o <<"_usecase">>, ".go")>>,
      text |-> Tpl(<<"gin/usecase">>, domain_name \o <<"|">> \o module_path)],
     [path |-> <<C("internal"), C("handler"), F(domain_name \o <<"_handler">>, ".go")>>,
      text |-> Tpl(<<"gin/handler">>, domain_name \o <<"|">> \o module_path)] >>

DomainMessages ==
  << "Created entity", "Created repository interface", "Created repository implementation",
     "Created use case", "Created handler" >>

\* generate_domain.py main()
generate_domain_main(d, f, name, fields) ==
  LET domain_name == LowerAll(name)
      go_mod_path == <<C("go.mod")>>
  IN  IF ~Exists(d, f, go_mod_path)
      THEN Result(d, f, 1, <<"Error: go.mod not found">>)
      ELSE IF go_mod_path \notin DOMAIN f \/ ModulePath(f[go_mod_path]) = << >>
           THEN Result(d, f, 1, <<"Error: Could not determine module path from go.mod">>)
           ELSE LET w == WriteInTurn(d, f, DomainWrites(domain_name, fields,
                                                         ModulePath(f[go_mod_path])), 1)
                IN  IF w.raised
                    THEN Result(d, w.files, 1,
                                SubSeq(DomainMessages, 1, w.written) \o <<"FileNotFoundError">>)
                    ELSE Result(d, w.files, 0,
                                DomainMessages \o <<"Domain generated successfully!">>)

GinGenerateDomain ==
  \E name \in DomainNames, fields \in FieldArgs :
    Run(Call("gin/generate_domain", name, "", fields, "", ""),
        generate_domain_main(dirs, files, name, fields))

(***************************************************************************)
(* Next.js: generate_page.py; React: add_component.py                      *)
(***************************************************************************)

NextPageTypes == {"basic", "data", "form", "protected", "api"}

\* The types the runs are tried with.
NextPageTypesTried == {"basic", "data", "api"}

\* page_name.lower().replace(" ", "-"): the route when --route is not given.
DefaultRoute(page_name) ==
  [i \in 1..Len(page_name) |-> IF page_name[i] = " " THEN "-" ELSE Lower(page_name[i])]

\* create_basic_page, create_data_page, create_form_page,
\* create_protected_page and create_api_route.
next_create_page(d, f, page_name, route, type) ==
  LET target == IF type = "api"
                THEN <<C("src"), C("app"), C("api"), F(route, ""), C("route.ts")>>
                ELSE <<C("src"), C("app"), F(route, ""), C("page.tsx")>>
      content == IF type = "api" THEN Tpl(<<"next/api route">>, << >>)
                 ELSE Tpl(<<"next/page", type>>, page_name)
  IN  [dirs |-> MkdirP(d, Parent(target)), files |-> WriteText(f, target, content),
       out |-> <<"Created page">>]

\* generate_page.py main()
next_generate_page_main(d, f, page_name, type) ==
  IF NodeProjectError(d, f) # << >>
  THEN Result(d, f, 1, NodeProjectError(d, f))
  ELSE LET r == next_create_page(d, f, page_name, DefaultRoute(page_name), type)
       IN  Result(r.dirs, r.files, 0, r.out \o <<"Page generated successfully!">>)

NextGeneratePage ==
  \E name \in Names, type \in NextPageTypesTried :
    Run(Call("nextjs/generate_page", name, type, "", "", ""),
        next_generate_page_main(dirs, files, name, type))

\* What add_component.py is asked to do: list the catalogue, add from a
\* registry, add a preset group, add the named components, or nothing.
AddComponentModes == {"--list", "--registry", "--preset", "components", ""}

\* `npx shadcn@latest add ...` is an external program: it fails and leaves the
\* tree alone, or succeeds and adds the component below src/components/ui.
ShadcnAdd(d, f, succeeded) ==
  IF succeeded
  THEN LET target == <<C("src"), C("components"), C("ui"), F(<<"button">>, ".tsx")>>
       IN  [ok |-> TRUE, dirs |-> MkdirP(d, Parent(target)),
            files |-> WriteText(f, target, Tpl(<<"shadcn/ui">>, <<"button">>))]
  ELSE [ok |-> FALSE, dirs |-> d, files |-> f]

\* add_component.py main() of the React skill
react_add_component_main(d, f, mode, succeeded) ==
  IF mode = "--list" THEN Result(d, f, 0, <<"Popular shadcn/ui Components:">>)
  ELSE IF NodeProjectError(d, f) # << >>
       THEN Result(d, f, 1, NodeProjectError(d, f))
       ELSE IF mode = "" THEN Result(d, f, 1, <<"Error: No components specified">>)
            ELSE LET r == ShadcnAdd(d, f, succeeded)
                 IN  IF r.ok THEN Result(r.dirs, r.files, 0, <<"added successfully!">>)
                     ELSE Result(r.dirs, r.files, 1, <<"Failed to add">>)

ReactAddComponent ==
  \E mode \in AddComponentModes, succeeded \in BOOLEAN :
    Run(Call("react/add_component", << >>, "", mode, "", ""),
        react_add_component_main(dirs, files, mode, succeeded))

\* The component flags of generate_auth_components.py and the file each stands for.
AuthComponentFlags == {"--signin", "--signup", "--google", "--user-button"}

AuthComponentFile(flag) ==
  IF flag = "--signin" THEN "signin-form.tsx"
  ELSE IF flag = "--signup" THEN "signup-form.tsx"
       ELSE IF flag = "--google" THEN "google-signin-button.tsx"
            ELSE "user-button.tsx"

\* The flag combinations the runs are tried with; "--all" stands for all four.
AuthComponentFlagsTried == { {}, {"--all"}, {"--signin"}, {"--google", "--user-button"} }

\* generate_auth_components.py main(): the four create_* functions run for
\* the flags given, and only then is an empty selection rejected.
next_generate_auth_components_main(d, f, flags) ==
  IF NodeProjectError(d, f) # << >>
  THEN Result(d, f, 1, NodeProjectError(d, f))
  ELSE LET chosen == IF "--all" \in flags THEN AuthComponentFlags
                     ELSE flags \cap AuthComponentFlags
           component_dir == <<C("src"), C("components"), C("auth")>>
           targets == { component_dir \o <<C(AuthComponentFile(x))>> : x \in chosen }
           f1 == [p \in DOMAIN f \cup targets |->
                    IF p \in targets THEN Tpl(<<"next/auth component", p[Len(p)][1][1]>>, << >>)
                    ELSE f[p]]
       IN  IF flags = {} THEN Result(d, f, 1, <<"No components specified.">>)
           ELSE Result(MkdirP(d, component_dir), f1, 0,
                       <<"Authentication components generated successfully!">>)

NextGenerateAuthComponents ==
  \E flags \in AuthComponentFlagsTried :
    Run(Call("nextjs/generate_auth_components", << >>, "", flags, "", ""),
        next_generate_auth_components_main(dirs, files, flags))

(***************************************************************************)
(* Gin add_auth.py; monorepo add_auth.py and generate_docs.py              *)
(***************************************************************************)

\* One line of a .env file: KEY=value, or a comment ("#", text), or blank ("", "").
EnvLine(key, value) == [k |-> <<key, value>>, a |-> << >>]

\* `"JWT_SECRET" not in content`, negated: some line of the file mentions it.
MentionsJwtSecret(content) == \E i \in 1..Len(content) : content[i].k[1] = "JWT_SECRET"

\* The block update_env_example appends.
GinJwtBlock ==
  << EnvLine("", ""), EnvLine("#", "JWT Configuration"),
     EnvLine("JWT_SECRET", "your-secret-key-here-change-in-production"),
     EnvLine("JWT_ISSUER", "your-app-name"), EnvLine("JWT_EXPIRY_MINUTES", "1440") >>

\* The file update_env_example writes when there is none.
GinFreshEnv ==
  << EnvLine("#", "Database"), EnvLine("DB_HOST", "localhost"),
     EnvLine("DB_PORT", "5432"), EnvLine("DB_USER", "postgres"),
     EnvLine("DB_PASSWORD", "postgres"), EnvLine("DB_NAME", "myapp"),
     EnvLine("DB_SSLMODE", "disable"), EnvLine("", ""),
     EnvLine("#", "Server"), EnvLine("SERVER_PORT", "8080"), EnvLine("", ""),
     EnvLine("#", "JWT Configuration"),
     EnvLine("JWT_SECRET", "your-secret-key-here-change-in-production"),
     EnvLine("JWT_ISSUER", "your-app-name"), EnvLine("JWT_EXPIRY_MINUTES", "1440"),
     EnvLine("", ""), EnvLine("#", "Google OAuth (optional)"),
     EnvLine("GOOGLE_CLIENT_ID", "your-google-client-id"),
     EnvLine("GOOGLE_CLIENT_SECRET", "your-google-client-secret") >>

\* update_env_example(project_path)
update_env_example(f) ==
  LET env_file == <<C(".env.example")>>
  IN  IF env_file \in DOMAIN f
      THEN IF ~MentionsJwtSecret(f[env_file])
           THEN WriteText(f, env_file, f[env_file] \o GinJwtBlock)
           ELSE f
      ELSE WriteText(f, env_file, GinFreshEnv)

AuthTypes == {"local", "google", "both"}

\* The files create_auth_domain, create_jwt_package and create_auth_middleware
\* write, each after creating its directory; only the user entity depends on
\* the provider (the password field is left out for google).
GinAuthWrites(provider, module_path) ==
  LET auth == <<C("internal"), C("domain"), C("auth")>>
  IN  << [path |-> auth \o <<C("entity"), C("user.go")>>,
          text |-> Tpl(<<"gin/auth entity", IF provider = "google" THEN "" ELSE "Password">>,
                       module_path)],
         [path |-> auth \o <<C("dto"), C("auth_dto.go")>>,
          text |-> Tpl(<<"gin/auth dto">>, << >>)],
         [path |-> auth \o <<C("repository"), C("auth_repository.go")>>,
          text |-> Tpl(<<"gin/auth repository">>, module_path)],
         [path |-> auth \o <<C("repository"), C("auth_repository_impl.go")>>,
          text |-> Tpl(<<"gin/auth repository impl">>, module_path)],
         [path |-> auth \o <<C("service"), C("auth_service.go")>>,
          text |-> Tpl(<<"gin/auth service">>, module_path)],
         [path |-> auth \o <<C("service"), C("auth_service_impl.go")>>,
          text |-> Tpl(<<"gin/auth service impl">>, module_path)],
         [path |-> auth \o <<C("handler"), C("auth_handler.go")>>,
          text |-> Tpl(<<"gin/auth handler">>, module_path)],
         [path |-> <<C("pkg"), C("jwt"), C("jwt.go")>>,
          text |-> Tpl(<<"gin/jwt">>, module_path)],
         [path |-> <<C("internal"), C("infrastructure"), C("middleware"), C("auth.go")>>,
          text |-> Tpl(<<"gin/auth middleware">>, module_path)] >>

\* mkdir(parents=True, exist_ok=True) of the parent, then write_text, for each file.
RECURSIVE MkdirAndWrite(_, _, _)
MkdirAndWrite(t, writes, i) ==
  IF i > Len(writes) THEN t
  ELSE MkdirAndWrite(Tree(MkdirP(t.dirs, Parent(writes[i].path)),
                          WriteText(t.files, writes[i].path, writes[i].text)),
                     writes, i + 1)

\* add_auth.py main() of the Gin skill
gin_add_auth_main(d, f, provider) ==
  IF GoProjectError(d, f) # << >>
  THEN Result(d, f, 1, GoProjectError(d, f))
  ELSE IF <<C("go.mod")>> \notin DOMAIN f \/ ModulePath(f[<<C("go.mod")>>]) = << >>
       THEN Result(d, f, 1, <<"IndexError">>)
       ELSE LET t == MkdirAndWrite(Tree(d, f),
                                   GinAuthWrites(provider, ModulePath(f[<<C("go.mod")>>])), 1)
            IN  Result(MkdirP(t.dirs, <<C("uploads"), C("avatars")>>),
                       update_env_example(t.files), 0,
                       <<"JWT authentication added successfully!">>)

GinAddAuth ==
  \E provider \in AuthTypes :
    Run(Call("gin/add_auth", << >>, "", provider, "", ""),
        gin_add_auth_main(dirs, files, provider))

\* generate_env_example(auth_type)
generate_env_example(auth_type) ==
  << EnvLine("JWT_SECRET", "your-secret-key") >>
    \o (IF auth_type \in {"google", "both"}
        THEN << EnvLine("GOOGLE_CLIENT_ID", "your-google-client-id"),
                EnvLine("GOOGLE_CLIENT_SECRET", "your-google-client-secret") >>
        ELSE << >>)

\* The .env.example step of create_auth: append the block to an existing
\* file, or create the file with it.
MonoUpdateEnv(f, env_file, auth_type) ==
  IF env_file \in DOMAIN f
  THEN AppendText(f, env_file,
                  << EnvLine("", ""), EnvLine("# Authentication", auth_type) >>
                    \o generate_env_example(auth_type))
  ELSE WriteText(f, env_file,
                 << EnvLine("# Authentication", auth_type) >>
                   \o generate_env_example(auth_type))

\* The auth.ts text create_auth selects.
MonoAuthContent(auth_type) ==
  IF auth_type = "local" THEN Tpl(<<"monorepo/auth", "local">>, << >>)
  ELSE IF auth_type = "google" THEN Tpl(<<"monorepo/auth", "google">>, << >>)
       ELSE Tpl(<<"monorepo/auth", "combined">>, << >>)

\* create_auth(project_path, auth_type); project_path is the package.
create_auth(d, f, package_path, auth_type) ==
  IF auth_type \notin AuthTypes
  THEN [ok |-> FALSE, dirs |-> d, files |-> f, out |-> <<"Unknown auth type">>]
  ELSE LET auth_file == package_path \o <<C("src"), C("middleware"), C("auth.ts")>>
           routes_file == package_path \o <<C("src"), C("routes"), C("auth.ts")>>
           d1 == MkdirP(MkdirP(d, Parent(auth_file)), Parent(routes_file))
           f1 == WriteText(f, auth_file, MonoAuthContent(auth_type))
           f2 == WriteText(f1, routes_file, Tpl(<<"monorepo/auth routes">>, <<auth_type>>))
           env_file == Parent(Parent(package_path)) \o <<C(".env.example")>>
       IN  [ok |-> TRUE, dirs |-> d1, files |-> MonoUpdateEnv(f2, env_file, auth_type),
            out |-> <<"Created auth.ts", "Created routes",
                      IF env_file \in DOMAIN f THEN "Updated .env.example"
                      ELSE "Created .env.example">>]

\* add_auth.py main() of the monorepo skill
mono_add_auth_main(d, f, auth_type, package_name, order) ==
  LET package_path == find_package(d, f, package_name, order, SrcMarker)
  IN  IF package_path = NoPackage
      THEN Result(d, f, 1, <<"No backend package found">>)
      ELSE LET r == create_auth(d, f, package_path, auth_type)
           IN  IF ~r.ok THEN Result(r.dirs, r.files, 1, TargetLine(package_path) \o r.out)
               ELSE Result(r.dirs, r.files, 0,
                           TargetLine(package_path) \o r.out \o <<"Authentication added successfully!">>)

MonoAddAuth ==
  \E auth_type \in AuthTypes, pkg \in PackageOptions :
   \E order \in Orders(dirs, files, pkg) :
    Run(Call("monorepo/add_auth", << >>, auth_type, "", pkg, ""),
        mono_add_auth_main(dirs, files, auth_type, pkg, order))

DocTypes == {"markdown", "openapi"}

\* create_docs(project_path, name, doc_type)
create_docs(d, f, package_path, name, doc_type) ==
  IF doc_type \notin DocTypes
  THEN [ok |-> FALSE, dirs |-> d, files |-> f, out |-> <<"Unknown documentation type">>]
  ELSE LET pascal_name == to_pascal_case(name)
           doc_path == IF doc_type = "markdown"
                       THEN package_path \o <<C("docs"), F(pascal_name \o <<"_API">>, ".md")>>
                       ELSE package_path \o <<C("docs"), F(pascal_name \o <<"_OpenAPI">>, ".yaml")>>
       IN  [ok |-> TRUE, dirs |-> MkdirP(d, Parent(doc_path)),
            files |-> WriteText(f, doc_path, Tpl(<<"monorepo/docs", doc_type>>, name)),
            out |-> <<"Created docs">>]

\* generate_docs.py main()
mono_generate_docs_main(d, f, name, doc_type, package_name, order) ==
  LET package_path == find_package(d, f, package_name, order, SrcMarker)
  IN  IF package_path = NoPackage
      THEN Result(d, f, 1, <<"No backend package found">>)
      ELSE LET r == create_docs(d, f, package_path, name, doc_type)
           IN  IF ~r.ok THEN Result(r.dirs, r.files, 1, TargetLine(package_path) \o r.out)
               ELSE Result(r.dirs, r.files, 0,
                           TargetLine(package_path) \o r.out \o <<"Documentation generated successfully!">>)

MonoGenerateDocs ==
  \E name \in Names, doc_type \in DocTypes, pkg \in PackageOptions :
   \E order \in Orders(dirs, files, pkg) :
    Run(Call("monorepo/generate_docs", name, doc_type, "", pkg, ""),
        mono_generate_docs_main(dirs, files, name, doc_type, pkg, order))

(***************************************************************************)
(* Two create_component runs at the same time against one tree             *)
(***************************************************************************)

Procs == {1, 2}

\* The two scripts whose create_component keeps an index.ts.
RaceScripts == {"react/generate_component", "monorepo/generate_component"}

\* The directory a process writes into (the monorepo process has resolved
\* packages/frontend before).
RaceDir(script) ==
  IF script = "react/generate_component" THEN <<C("src"), C("components")>>
  ELSE Pkg("frontend") \o <<C("src"), C("components"), C("components")>>

RaceComponentFile(p) == Append(RaceDir(p.script), F(to_pascal_case(p.name), ".tsx"))

RaceIndexFile(p) == Append(RaceDir(p.script), C("index.ts"))

RaceExportLine(p) ==
  IF p.script = "react/generate_component" THEN ReactExportLine(to_pascal_case(p.name))
  ELSE MonoExportLine(to_pascal_case(p.name))

RaceContent(p) ==
  IF p.script = "react/generate_component"
  THEN Tpl(<<"react/component", p.type>>, to_pascal_case(p.name))
  ELSE Tpl(<<"monorepo/component", p.type>>, to_pascal_case(p.name))

\* A write-back that forgets the line it was to add.
WriteBackWithoutLine(content, export_line) == content

\* content + export_line
WriteBack(content, export_line) == content \o <<export_line>>

\* One process moves on; the run plumbing is left alone.
Step(i, pc, seen, d, f) ==
  /\ procs' = [procs EXCEPT ![i].pc = pc, ![i].seen = seen]
  /\ dirs' = d
  /\ files' = f
  /\ UNCHANGED <<status, stdout, call, before, repeat, runs, fn, arg, ret>>

\* mkdir(parents=True, exist_ok=True) and write_text(content) of the
\* component file, which no other process names.
RaceWriteComponent(i) ==
  /\ procs[i].pc = "component"
  /\ Step(i, "exists", procs[i].seen, MkdirP(dirs, RaceDir(procs[i].script)),
          WriteText(files, RaceComponentFile(procs[i]), RaceContent(procs[i])))

\* index_file.exists()
RaceIndexExists(i) ==
  /\ procs[i].pc = "exists"
  /\ Step(i,
          IF RaceIndexFile(procs[i]) \in DOMAIN files
          THEN (IF procs[i].script = "react/generate_component" THEN "read" ELSE "append")
          ELSE "create",
          procs[i].seen, dirs, files)

\* React: content = index_file.read_text(); `export_line not in content`
RaceReadIndex(i) ==
  /\ procs[i].pc = "read"
  /\ LET content == files[RaceIndexFile(procs[i])]
     IN  Step(i, IF HasLine(content, RaceExportLine(procs[i])) THEN "done" ELSE "write",
              content, dirs, files)

\* React: index_file.write_text(content + export_line)
RaceWriteIndex(i) ==
  /\ procs[i].pc = "write"
  /\ Step(i, "done", procs[i].seen, dirs,
          WriteText(files, RaceIndexFile(procs[i]),
                    WriteBack(procs[i].seen, RaceExportLine(procs[i]))))

\* index_file.write_text(export_line): the branch of the absent index.ts
RaceCreateIndex(i) ==
  /\ procs[i].pc = "create"
  /\ Step(i, "done", procs[i].seen, dirs,
          WriteText(files, RaceIndexFile(procs[i]), <<RaceExportLine(procs[i])>>))

\* Monorepo: open(index_path, 'a').write(line)
RaceAppendIndex(i) ==
  /\ procs[i].pc = "append"
  /\ Step(i, "done", procs[i].seen, dirs,
          AppendText(files, RaceIndexFile(procs[i]), <<RaceExportLine(procs[i])>>))

(***************************************************************************)
(* Gin init_project.py; monorepo init_project.py and generate_package.py   *)
(***************************************************************************)

\* The files every function of the Gin init_project.py writes, for a module
\* path: go.mod names the module, .env.example is fixed text.
gin_init_files(module_path) ==
  [p \in GinFiles |->
     IF p = <<C("go.mod")>>
     THEN << [k |-> <<"module">>, a |-> module_path], [k |-> <<"go 1.21">>, a |-> << >>] >>
     ELSE IF p = <<C(".env.example")>> THEN GinEnvExample
          ELSE Tpl(<<"gin/init", p[Len(p)][1][1]>>, module_path)]

\* init_project.py main() of the Gin skill; the project path is
\* Path(project_name).
gin_init_project_main(d, f, project_name, module_path) ==
  LET module == IF module_path # << >> THEN module_path ELSE project_name
  IN  IF Exists(d, f, Root)
      THEN Result(d, f, 1, <<"Error: Directory already exists">>)
      ELSE Result(GinDirs, gin_init_files(module), 0,
                  <<"Initializing project", "Project initialized successfully!">>)

\* The --module-path values tried ("" when the option is not given).
ModulePathsTried == { << >>, <<"m">> }

GinInitProject ==
  \E module_path \in ModulePathsTried :
    Run(Call("gin/init_project", <<"p">>, "", module_path, "", ""),
        gin_init_project_main(dirs, files, <<"p">>, module_path))

\* create_project_structure: the directories of a new monorepo.
mono_init_dirs ==
  UNION { MkdirP({}, p) :
          p \in Under(Pkg("backend"), { <<C("src"), C("routes")>>, <<C("src"), C("middleware")>>,
                                        <<C("src"), C("services")>>, <<C("src"), C("db")>> })
           \cup Under(Pkg("frontend"), { <<C("src"), C("components"), C("ui")>>,
                                         <<C("src"), C("components"), C("layout")>>,
                                         <<C("src"), C("pages")>>, <<C("src"), C("hooks")>>,
                                         <<C("src"), C("lib")>>, <<C("src"), C("services")>>,
                                         <<C("src"), C("store")>>, <<C("src"), C("types")>>,
                                         <<C("src"), C("utils")>> })
           \cup Under(Pkg("shared"), { <<C("src"), C("types")>>, <<C("src"), C("utils")>> }) }

\* The files create_frontend_package writes below the package, in both
\* init_project.py and generate_package.py: components.json is among them.
FrontendPackageFiles ==
  { <<C("package.json")>>, <<C("tsconfig.json")>>, <<C("vite.config.ts")>>,
    <<C("tailwind.config.js")>>, <<C("postcss.config.js")>>, <<C("components.json")>>,
    <<C("src"), C("index.css")>>, <<C("src"), C("lib"), C("utils.ts")>>,
    <<C("src"), C("App.tsx")>>, <<C("src"), C("main.tsx")>>, <<C("index.html")>> }

\* create_root_package_json, create_backend_package, create_frontend_package,
\* create_shared_package, create_bunfig, create_gitignore and create_readme
\* of init_project.py: the files of a new monorepo.
mono_init_files ==
  { <<C("package.json")>>, <<C("bunfig.toml")>>, <<C(".gitignore")>>, <<C("README.md")>> }
    \cup Under(Pkg("backend"), { <<C("package.json")>>, <<C("tsconfig.json")>>,
                                 <<C("src"), C("index.ts")>> })
    \cup Under(Pkg("frontend"), FrontendPackageFiles)
    \cup Under(Pkg("shared"), { <<C("package.json")>>, <<C("tsconfig.json")>>,
                                <<C("src"), C("index.ts")>> })

\* run_command("git init") and run_command("bun install") in the project:
\* external programs; a success leaves .git/, or node_modules/ and bun.lock.
mono_init_commands(d, f, git, install) ==
  LET d1 == IF git THEN d \cup {<<C(".git")>>} ELSE d
      d2 == IF install THEN d1 \cup {<<C("node_modules")>>} ELSE d1
      f1 == IF install THEN WriteText(f, <<C("bun.lock")>>, Tpl(<<"bun.lock">>, << >>)) ELSE f
  IN  Tree(d2, f1)

\* init_project.py main() of the monorepo skill; git and install tell
\* whether the two commands succeed (they are not run when skipped).
mono_init_project_main(d, f, skip_git, skip_install, git, install) ==
  IF Exists(d, f, Root)
  THEN Result(d, f, 1, <<"Directory already exists">>)
  ELSE LET created == [p \in mono_init_files |-> Tpl(<<"monorepo/init", p[Len(p)][1][1]>>, << >>)]
           t == mono_init_commands(mono_init_dirs, created,
                                   ~skip_git /\ git, ~skip_install /\ install)
       IN  Result(t.dirs, t.files, 0,
                  <<"Creating monorepo">>
                    \o (IF ~skip_git /\ ~git THEN <<"Failed to initialize git">> ELSE << >>)
                    \o (IF ~skip_install /\ ~install
                        THEN <<"Failed to install dependencies">> ELSE << >>)
                    \o <<"Monorepo initialized successfully!">>)

MonoInitProject ==
  \E skip_git \in BOOLEAN, skip_install \in BOOLEAN, git \in BOOLEAN, install \in BOOLEAN :
    /\ skip_git => git
    /\ skip_install => install
    /\ Run(Call("monorepo/init_project", <<"p">>, "",
                [skip_git |-> skip_git, skip_install |-> skip_install], "", ""),
           mono_init_project_main(dirs, files, skip_git, skip_install, git, install))

PackageTypes == {"backend", "frontend", "library"}

\* What create_backend_package, create_frontend_package and
\* create_library_package of generate_package.py make below packages/<name>.
package_dirs(type) ==
  CASE type = "backend" -> { <<C("src"), C("routes")>>, <<C("src"), C("middleware")>>,
                             <<C("src"), C("services")>> }
    [] type = "frontend" -> { <<C("src"), C("components"), C("ui")>>, <<C("src"), C("pages")>>,
                              <<C("src"), C("hooks")>>, <<C("src"), C("lib")>> }
    [] type = "library" -> { <<C("src")>> }

\* The files of a package, a frontend package lacking components.json.
package_files_without_marker(type) ==
  CASE type = "backend" -> { <<C("package.json")>>, <<C("tsconfig.json")>>,
                             <<C("src"), C("index.ts")>>,
                             <<C("src"), C("routes"), C("index.ts")>> }
    [] type = "frontend" -> FrontendPackageFiles \ { ComponentsJsonMarker }
    [] type = "library" -> { <<C("package.json")>>, <<C("tsconfig.json")>>,
                             <<C("src"), C("index.ts")>> }

package_files(type) ==
  CASE type = "backend" -> { <<C("package.json")>>, <<C("tsconfig.json")>>,
                             <<C("src"), C("index.ts")>>,
                             <<C("src"), C("routes"), C("index.ts")>> }
    [] type = "frontend" -> FrontendPackageFiles
    [] type = "library" -> { <<C("package.json")>>, <<C("tsconfig.json")>>,
                             <<C("src"), C("index.ts")>> }

\* create_<type>_package(project_path, package_name): always True.
create_package(d, f, type, package_name) ==
  LET made == Under(Pkg(package_name), package_files(type))
  IN  [ok |-> TRUE,
       dirs |-> d \cup UNION { MkdirP({}, p) : p \in Under(Pkg(package_name), package_dirs(type)) },
       files |-> [p \in DOMAIN f \cup made |->
                    IF p \in made
                    THEN Tpl(<<"monorepo/package", type, p[Len(p)][1][1]>>, <<package_name>>)
                    ELSE f[p]],
       out |-> <<"Creating package", type, package_name, "created successfully!">>]

\* main() without its `package_path.exists()` exit.
generate_package_over_existing(d, f, package_name, type) ==
  IF ~Exists(d, f, <<C("packages")>>)
  THEN Result(d, f, 1, <<"Not a valid monorepo project (packages directory not found)">>)
  ELSE LET r == create_package(d, f, type, package_name)
       IN  Result(r.dirs, r.files, 0, <<"Generating package">> \o r.out \o <<"Next steps:">>)

\* generate_package.py main()
generate_package_main(d, f, package_name, type) ==
  IF ~Exists(d, f, <<C("packages")>>)
  THEN Result(d, f, 1, <<"Not a valid monorepo project (packages directory not found)">>)
  ELSE IF Exists(d, f, Pkg(package_name))
       THEN Result(d, f, 1, <<"Package already exists">>)
       ELSE LET r == create_package(d, f, type, package_name)
            IN  IF ~r.ok THEN Result(r.dirs, r.files, 1, r.out \o <<"Failed to create package">>)
                ELSE Result(r.dirs, r.files, 0,
                            <<"Generating package">> \o r.out \o <<"Next steps:">>)

\* The package names the runs are tried with.
PackageNames == {"frontend", "backend"}

MonoGeneratePackage ==
  \E package_name \in PackageNames, type \in PackageTypes :
    Run(Call("monorepo/generate_package", << >>, type, "", package_name, ""),
        generate_package_main(dirs, files, package_name, type))

(***************************************************************************)
(* React and Next.js: init_project.py                                      *)
(***************************************************************************)

\* run_command(command, cwd): what it prints; "Error:" follows the command
\* when its return code is not 0.
CommandLog(command, succeeded) ==
  <<"Running:", command>> \o (IF succeeded THEN << >> ELSE <<"Error:">>)

\* The files an external command or a function leaves, each holding the
\* text of its kind.
WriteFiles(f, paths, kind) ==
  [p \in DOMAIN f \cup paths |->
     IF p \in paths THEN Tpl(<<kind, p[Len(p)][1][1]>>, << >>) ELSE f[p]]

\* `npm install <packages>`: package.json lists them afterwards.
NpmInstall(f, packages) ==
  AppendText(f, <<C("package.json")>>, << [k |-> <<"dependency", packages>>, a |-> << >>] >>)

\* The commands of the two scripts.  Whether a command succeeds is the
\* outside world's choice; a command that fails leaves the tree as it was.
Commands ==
  {"create", "npm install", "tailwind", "tailwindcss init", "shadcn init", "manual deps",
   "packages"}

\* create_react_project(project_name, use_typescript)
create_react_project(d, f, o) ==
  LET created == WriteFiles(f, { <<C("package.json")>>, <<C("index.html")>>,
                                 <<C("tsconfig.json")>>, <<C("vite.config.ts")>>,
                                 <<C("src"), C("main.tsx")>>, <<C("src"), C("index.css")>> },
                            "vite")
      d1 == d \cup {Root, <<C("src")>>}
  IN  IF ~o["create"]
      THEN [ok |-> FALSE, dirs |-> d, files |-> f, out |-> CommandLog("create", FALSE)]
      ELSE IF ~o["npm install"]
           THEN [ok |-> FALSE, dirs |-> d1, files |-> created,
                 out |-> CommandLog("create", TRUE) \o CommandLog("npm install", FALSE)]
           ELSE [ok |-> TRUE, dirs |-> d1 \cup {<<C("node_modules")>>}, files |-> created,
                 out |-> CommandLog("create", TRUE) \o CommandLog("npm install", TRUE)]

\* install_tailwind(project_path)
install_tailwind(d, f, o) ==
  LET f1 == NpmInstall(f, "tailwindcss")
      f2 == WriteFiles(f1, { <<C("tailwind.config.js")>>, <<C("postcss.config.js")>> },
                       "tailwindcss init")
      f3 == WriteFiles(f2, { <<C("tailwind.config.js")>>, <<C("src"), C("index.css")>> },
                       "react/init")
  IN  IF ~o["tailwind"]
      THEN [ok |-> FALSE, dirs |-> d, files |-> f, out |-> CommandLog("tailwind", FALSE)]
      ELSE IF ~o["tailwindcss init"]
           THEN [ok |-> FALSE, dirs |-> d, files |-> f1,
                 out |-> CommandLog("tailwind", TRUE) \o CommandLog("tailwindcss init", FALSE)]
           ELSE [ok |-> TRUE, dirs |-> d, files |-> f3,
                 out |-> CommandLog("tailwind", TRUE) \o CommandLog("tailwindcss init", TRUE)
                           \o <<"Updated tailwind.config.js", "Updated src/index.css">>]

\* manual_shadcn_setup(project_path) of the React script: tsconfig.json and
\* vite.config.ts are rewritten when they exist.
react_manual_shadcn_setup(d, f, o) ==
  LET f1 == NpmInstall(f, "class-variance-authority")
      f2 == WriteFiles(f1, { <<C("components.json")>>, <<C("src"), C("lib"), C("utils.ts")>> }
                             \cup ({ <<C("tsconfig.json")>>, <<C("vite.config.ts")>> }
                                     \cap DOMAIN f1),
                       "react/manual")
  IN  IF ~o["manual deps"]
      THEN [ok |-> FALSE, dirs |-> d, files |-> f, out |-> CommandLog("manual deps", FALSE)]
      ELSE [ok |-> TRUE, dirs |-> d \cup {<<C("src"), C("lib")>>}, files |-> f2,
            out |-> CommandLog("manual deps", TRUE)
                      \o <<"Created components.json", "Created src/lib/utils.ts">>]

\* manual_shadcn_setup(project_path) of the Next.js script
next_manual_shadcn_setup(d, f, o) ==
  LET f1 == NpmInstall(f, "class-variance-authority")
      f2 == WriteFiles(f1, { <<C("components.json")>>, <<C("src"), C("lib"), C("utils.ts")>> },
                       "nextjs/manual")
  IN  IF ~o["manual deps"]
      THEN [ok |-> FALSE, dirs |-> d, files |-> f, out |-> CommandLog("manual deps", FALSE)]
      ELSE [ok |-> TRUE, dirs |-> d \cup {<<C("src"), C("lib")>>}, files |-> f2,
            out |-> CommandLog("manual deps", TRUE)
                      \o <<"Created components.json", "Created src/lib/utils.ts">>]

\* install_shadcn returning True whatever the manual setup returns.
install_shadcn_ignoring_manual(d, f, o, manual) ==
  IF o["shadcn init"]
  THEN [ok |-> TRUE, dirs |-> d \cup {<<C("src"), C("lib")>>},
        files |-> WriteFiles(f, { <<C("components.json")>>,
                                  <<C("src"), C("lib"), C("utils.ts")>> }, "shadcn init"),
        out |-> CommandLog("shadcn init", TRUE)]
  ELSE [ok |-> TRUE, dirs |-> manual.dirs, files |-> manual.files,
        out |-> CommandLog("shadcn init", FALSE)
                  \o <<"shadcn init failed, trying manual setup...">> \o manual.out]

\* install_shadcn(project_path), the same in both scripts; manual is what
\* the script's manual_shadcn_setup returns on this tree.
install_shadcn(d, f, o, manual) ==
  IF o["shadcn init"]
  THEN [ok |-> TRUE, dirs |-> d \cup {<<C("src"), C("lib")>>},
        files |-> WriteFiles(f, { <<C("components.json")>>,
                                  <<C("src"), C("lib"), C("utils.ts")>> }, "shadcn init"),
        out |-> CommandLog("shadcn init", TRUE)]
  ELSE [ok |-> manual.ok, dirs |-> manual.dirs, files |-> manual.files,
        out |-> CommandLog("shadcn init", FALSE)
                  \o <<"shadcn init failed, trying manual setup...">> \o manual.out]

\* install_additional_packages(project_path): main ignores what it returns.
install_additional_packages(d, f, o) ==
  IF o["packages"]
  THEN [ok |-> TRUE, dirs |-> d, files |-> NpmInstall(f, "additional"),
        out |-> CommandLog("packages", TRUE)]
  ELSE [ok |-> FALSE, dirs |-> d, files |-> f,
        out |-> CommandLog("packages", FALSE) \o <<"Failed to install some packages">>]

\* create_project_structure of the React script
react_structure_dirs ==
  UNION { MkdirP({}, <<C("src")>> \o p) :
          p \in { <<C("components"), C("ui")>>, <<C("components"), C("layout")>>,
                  <<C("pages")>>, <<C("hooks")>>, <<C("lib")>>, <<C("services")>>,
                  <<C("store")>>, <<C("types")>>, <<C("utils")>> } }

\* create_project_structure of the Next.js script
next_structure_dirs == react_structure_dirs \ { <<C("src"), C("pages")>> }

\* The steps of main() after install_shadcn: the additional packages, whose
\* result is dropped, the directories, the files, the success message.
finish_init(r, skip_packages, o, structure_dirs, paths, kind) ==
  LET p == IF skip_packages THEN [ok |-> TRUE, dirs |-> r.dirs, files |-> r.files, out |-> << >>]
           ELSE install_additional_packages(r.dirs, r.files, o)
  IN  Result(p.dirs \cup structure_dirs, WriteFiles(p.files, paths, kind), 0,
             r.out \o p.out \o <<"Created project structure", "Created README.md",
                                 "initialized successfully!">>)

\* init_project.py main() of the React skill; o tells for each command
\* whether it succeeds.
react_init_project_main(d, f, skip_shadcn, skip_packages, o) ==
  LET c == create_react_project(d, f, o)
      t == install_tailwind(c.dirs, c.files, o)
      s == IF skip_shadcn THEN [ok |-> TRUE, dirs |-> t.dirs, files |-> t.files, out |-> << >>]
           ELSE install_shadcn(t.dirs, t.files, o, react_manual_shadcn_setup(t.dirs, t.files, o))
  IN  IF ~c.ok THEN Result(c.dirs, c.files, 1, c.out \o <<"Failed to create React project">>)
      ELSE IF ~t.ok
           THEN Result(t.dirs, t.files, 1, c.out \o t.out \o <<"Failed to install Tailwind CSS">>)
           ELSE IF ~s.ok
                THEN Result(s.dirs, s.files, 1,
                            c.out \o t.out \o s.out \o <<"Failed to install shadcn/ui">>)
                ELSE finish_init([dirs |-> s.dirs, files |-> s.files,
                                  out |-> c.out \o t.out \o s.out],
                                 skip_packages, o, react_structure_dirs,
                                 { <<C("README.md")>> }, "react/init")

\* create_nextjs_project(project_name, use_typescript, use_app_router)
create_nextjs_project(d, f, o) ==
  IF ~o["create"]
  THEN [ok |-> FALSE, dirs |-> d, files |-> f, out |-> CommandLog("create", FALSE)]
  ELSE [ok |-> TRUE, dirs |-> d \cup {Root, <<C("src")>>, <<C("src"), C("app")>>,
                                       <<C("node_modules")>>},
        files |-> WriteFiles(f, { <<C("package.json")>>, <<C("tsconfig.json")>>,
                                  <<C("src"), C("app"), C("page.tsx")>>,
                                  <<C("src"), C("app"), C("globals.css")>> },
                             "create-next-app"),
        out |-> CommandLog("create", TRUE)]

\* init_project.py main() of the Next.js skill
next_init_project_main(d, f, skip_shadcn, skip_packages, o) ==
  LET c == create_nextjs_project(d, f, o)
      s == IF skip_shadcn THEN [ok |-> TRUE, dirs |-> c.dirs, files |-> c.files, out |-> << >>]
           ELSE install_shadcn(c.dirs, c.files, o, next_manual_shadcn_setup(c.dirs, c.files, o))
  IN  IF ~c.ok THEN Result(c.dirs, c.files, 1, c.out \o <<"Failed to create Next.js project">>)
      ELSE IF ~s.ok
           THEN Result(s.dirs, s.files, 1, c.out \o s.out \o <<"Failed to install shadcn/ui">>)
           ELSE finish_init([dirs |-> s.dirs, files |-> s.files, out |-> c.out \o s.out],
                            skip_packages, o, next_structure_dirs,
                            { <<C(".env.local")>>, <<C("README.md")>> }, "nextjs/init")

\* The commands a run reaches, given the outcomes of those before them.
Reached(script, skip_shadcn, skip_packages, o) ==
  LET early == IF script = "react/init_project"
               THEN <<"create", "npm install", "tailwind", "tailwindcss init">>
               ELSE <<"create">>
      early_ok == \A i \in 1..Len(early) : o[early[i]]
      first_failed == CHOOSE i \in 1..Len(early) : ~o[early[i]] /\ \A j \in 1..(i - 1) : o[early[j]]
  IN  IF ~early_ok THEN { early[i] : i \in 1..first_failed }
      ELSE { early[i] : i \in 1..Len(early) }
             \cup (IF skip_shadcn THEN {}
                   ELSE {"shadcn init"} \cup (IF o["shadcn init"] THEN {} ELSE {"manual deps"}))
             \cup (IF skip_packages
                      \/ (~skip_shadcn /\ ~o["shadcn init"] /\ ~o["manual deps"])
                   THEN {} ELSE {"packages"})

\* One outcome per command reached: a command that is not run has none, and
\* is taken as succeeding.
OutcomesOf(script, skip_shadcn, skip_packages) ==
  { o \in [Commands -> BOOLEAN] :
      \A c \in Commands : ~o[c] => c \in Reached(script, skip_shadcn, skip_packages, o) }

ReactInitProject ==
  \E skip_shadcn \in BOOLEAN, skip_packages \in BOOLEAN :
    \E o \in OutcomesOf("react/init_project", skip_shadcn, skip_packages) :
      Run(Call("react/init_project", <<"p">>, "",
               [skip_shadcn |-> skip_shadcn, skip_packages |-> skip_packages, o |-> o], "", ""),
          react_init_project_main(dirs, files, skip_shadcn, skip_packages, o))

NextInitProject ==
  \E skip_shadcn \in BOOLEAN, skip_packages \in BOOLEAN :
    \E o \in OutcomesOf("nextjs/init_project", skip_shadcn, skip_packages) :
      Run(Call("nextjs/init_project", <<"p">>, "",
               [skip_shadcn |-> skip_shadcn, skip_packages |-> skip_packages, o |-> o], "", ""),
          next_init_project_main(dirs, files, skip_shadcn, skip_packages, o))

(***************************************************************************)
(* Next.js: add_auth.py                                                    *)
(***************************************************************************)

AuthProviders == {"local", "google", "both"}

\* The steps of main() after install_dependencies, for a provider: each is
\* the directories it makes, the files it writes and the line it prints.
\* init_drizzle and create_drizzle_schema run for local and both only.
auth_steps(provider) ==
  (IF provider \in {"local", "both"}
   THEN << [dirs |-> { <<C("src"), C("db")>> },
            files |-> { <<C("src"), C("db"), C("schema.ts")>>,
                        <<C("src"), C("db"), C("index.ts")>>, <<C("drizzle.config.ts")>> },
            line |-> "Created Drizzle schema"] >>
   ELSE << >>)
  \o << [dirs |-> { <<C("src"), C("lib")>> },
         files |-> { <<C("src"), C("lib"), C("auth.ts")>> },
         line |-> "Created src/lib/auth.ts"],
        [dirs |-> { <<C("src"), C("app"), C("api"), C("auth"), C("[...nextauth]")>>,
                    <<C("src"), C("app"), C("api"), C("avatar")>> },
         files |-> { <<C("src"), C("app"), C("api"), C("auth"), C("[...nextauth]"), C("route.ts")>>,
                     <<C("src"), C("app"), C("api"), C("avatar"), C("route.ts")>> },
         line |-> "Created src/app/api/avatar/route.ts"],
        [dirs |-> {}, files |-> { <<C("src"), C("middleware.ts")>> },
         line |-> "Created src/middleware.ts"],
        [dirs |-> { <<C("src"), C("app"), C("auth"), C("signin")>> },
         files |-> { <<C("src"), C("app"), C("auth"), C("signin"), C("page.tsx")>> },
         line |-> "Created src/app/auth/signin/page.tsx"],
        [dirs |-> { <<C("public"), C("uploads"), C("avatars")>> }, files |-> {},
         line |-> "Created public/uploads/avatars directory"] >>

\* get_local_auth_config, get_google_auth_config, get_both_auth_config and
\* the sign-in pages: the provider chooses the text.
auth_template(provider) ==
  CASE provider = "local" -> "nextjs/auth/local"
    [] provider = "google" -> "nextjs/auth/google"
    [] OTHER -> "nextjs/auth/both"

\* The steps from the i-th on, one after the other; each function returns
\* True.  create_drizzle_schema ends with `npm install @paralleldrive/cuid2`,
\* whose result it drops.
RECURSIVE AuthFrom(_, _, _, _, _, _)
AuthFrom(d, f, provider, steps, cuid, i) ==
  IF i > Len(steps) THEN [dirs |-> d, files |-> f, out |-> << >>]
  ELSE LET s == steps[i]
           d1 == d \cup UNION { MkdirP({}, p) : p \in s.dirs }
           f1 == WriteFiles(f, s.files, auth_template(provider))
           drizzle == s.line = "Created Drizzle schema"
           f2 == IF drizzle /\ cuid THEN NpmInstall(f1, "cuid2") ELSE f1
           rest == AuthFrom(d1, f2, provider, steps, cuid, i + 1)
       IN  [dirs |-> rest.dirs, files |-> rest.files,
            out |-> <<s.line>> \o (IF drizzle THEN CommandLog("cuid2", cuid) ELSE << >>)
                      \o rest.out]

\* install_dependencies(project_path, provider)
install_dependencies(d, f, provider, installed) ==
  IF installed
  THEN [ok |-> TRUE, dirs |-> d \cup {<<C("node_modules")>>},
        files |-> NpmInstall(f, IF provider = "google" THEN "next-auth" ELSE "next-auth drizzle"),
        out |-> CommandLog("auth deps", TRUE)]
  ELSE [ok |-> FALSE, dirs |-> d, files |-> f, out |-> CommandLog("auth deps", FALSE)]

\* main() going on after install_dependencies whatever it returned.
next_add_auth_ignoring_install(d, f, provider, installed, cuid) ==
  IF NodeProjectError(d, f) # << >>
  THEN Result(d, f, 1, NodeProjectError(d, f))
  ELSE LET i == install_dependencies(d, f, provider, installed)
           r == AuthFrom(i.dirs, i.files, provider, auth_steps(provider), cuid, 1)
       IN  Result(r.dirs, r.files, 0, i.out \o r.out \o <<"NextAuth.js added successfully!">>)

\* add_auth.py main() of the Next.js skill
next_add_auth_main(d, f, provider, installed, cuid) ==
  IF NodeProjectError(d, f) # << >>
  THEN Result(d, f, 1, NodeProjectError(d, f))
  ELSE LET i == install_dependencies(d, f, provider, installed)
           r == AuthFrom(i.dirs, i.files, provider, auth_steps(provider), cuid, 1)
       IN  IF ~i.ok THEN Result(i.dirs, i.files, 1, i.out \o <<"Failed to install dependencies">>)
           ELSE Result(r.dirs, r.files, 0,
                       i.out \o r.out \o <<"NextAuth.js added successfully!">>)

NextAddAuth ==
  \E provider \in AuthProviders, installed \in BOOLEAN, cuid \in BOOLEAN :
    /\ (~installed \/ provider = "google") => cuid
    /\ Run(Call("nextjs/add_auth", << >>, provider, "", "", ""),
           next_add_auth_main(dirs, files, provider, installed, cuid))

(***************************************************************************)
(* validate_skill.py of the Gin, monorepo and React skills.  The tree is   *)
(* the skill directory the script lives in; a text is a sequence of lines  *)
(* and `s in content` asks for the line s.                                 *)
(***************************************************************************)

TextLine(s) == [k |-> <<s>>, a |-> << >>]

Text(lines) == [i \in 1..Len(lines) |-> TextLine(lines[i])]

\* `s in content`
InText(content, s) == HasLine(content, TextLine(s))

\* content.startswith(s), f.readline().startswith(s): s is the first line.
FirstLineIs(content, s) == Len(content) > 0 /\ content[1] = TextLine(s)

\* content[:500]: the frontmatter, the first lines of SKILL.md.
HeadLines == 4

First500(content) ==
  SubSeq(content, 1, IF Len(content) < HeadLines THEN Len(content) ELSE HeadLines)

\* check_file_exists(file_path, description)
check_file_exists(d, f, p) == Exists(d, f, p)

\* check_directory_exists(dir_path, description)
check_directory_exists(d, f, p) == IsDir(d, p)

ScriptPath(name) == <<C("scripts"), C(name)>>

GinSkillScripts ==
  { "init_project.py", "generate_domain.py", "add_auth.py", "add_infrastructure.py",
    "add_middleware.py", "generate_docs.py", "helpers.py" }

GinSkillDocs ==
  { <<C("references"), C("ddd_architecture.md")>>, <<C("references"), C("gin_best_practices.md")>>,
    <<C("references"), C("gorm_examples.md")>>, <<C("examples"), C("complete_example.md")>>,
    <<C("examples"), C("quick_start.md")>> }

SkillDirs == { <<C("scripts")>>, <<C("references")>>, <<C("examples")>> }

\* validate_skill_structure() of the Gin script
gin_validate_skill_structure(d, f) ==
  /\ check_file_exists(d, f, <<C("SKILL.md")>>)
  /\ check_file_exists(d, f, <<C("README.md")>>)
  /\ \A s \in GinSkillScripts : check_file_exists(d, f, ScriptPath(s))
  /\ \A p \in GinSkillDocs : check_file_exists(d, f, p)
  /\ \A p \in SkillDirs : check_directory_exists(d, f, p)

\* The sections looked for in SKILL.md and README.md.
SkillMdSections(skill) ==
  CASE skill = "gin" -> { "# Gin Developer Skill", "## Overview", "## Architecture", "## Scripts",
                          "## Usage Guidelines" }
    [] skill = "monorepo" -> { "# Monorepo Developer Skill", "## Overview", "## Tech Stack",
                               "## Project Structure", "## Scripts", "## Usage Guidelines" }
    [] skill = "react" -> { "# React Developer Skill", "## Overview", "## Tech Stack", "## Scripts",
                            "## Usage Guidelines" }

ReadmeSections(skill) ==
  CASE skill = "gin" -> { "# Gin Developer Skill", "## Overview", "## Quick Start",
                          "## Project Structure", "## Scripts", "## Architecture" }
    [] skill = "react" -> { "# React Developer Skill", "## Features", "## Quick Start", "## Scripts",
                            "## Project Structure" }
    [] OTHER -> {}

\* validate_skill_md of the Gin and the monorepo script: the fields are
\* looked for only below a frontmatter.
validate_skill_md(d, f, skill, fields) ==
  LET skill_md == <<C("SKILL.md")>>
  IN  IF ~Exists(d, f, skill_md) THEN FALSE
      ELSE LET content == f[skill_md]
           IN  /\ FirstLineIs(content, "---")
               /\ \A field \in fields : InText(content, field)
               /\ \A section \in SkillMdSections(skill) : InText(content, section)

\* validate_skill_md of the React script: the fields are looked for in the
\* first 500 characters, with or without a frontmatter.
react_validate_skill_md(d, f) ==
  LET skill_md == <<C("SKILL.md")>>
  IN  IF ~Exists(d, f, skill_md) THEN FALSE
      ELSE LET content == f[skill_md]
           IN  /\ FirstLineIs(content, "---")
               /\ \A field \in {"name:", "description:"} : InText(First500(content), field)
               /\ \A section \in SkillMdSections("react") : InText(content, section)

\* The first lines a script may have.
Shebangs == {"#!/usr/bin/env python3", "#!/usr/bin/python3"}

\* validate_scripts() of the Gin script: a script that is not executable is
\* reported and passes; the first line has to start with
\* "#!/usr/bin/env python".
gin_validate_scripts(d, f) ==
  \A s \in GinSkillScripts :
    /\ Exists(d, f, ScriptPath(s))
    /\ FirstLineIs(f[ScriptPath(s)], "#!/usr/bin/env python3")

\* validate_documentation of the Gin and the React script
validate_readme(d, f, skill) ==
  IF Exists(d, f, <<C("README.md")>>)
  THEN \A section \in ReadmeSections(skill) : InText(f[<<C("README.md")>>], section)
  ELSE FALSE

\* print_summary(results) counting the checks that failed as passed.
print_summary_any(categories, results) ==
  LET total == Len(categories)
      passed == Cardinality({ i \in 1..total : results[categories[i]] })
  IN  [ok |-> passed > 0 \/ total = 0,
       out |-> [i \in 1..(2 * total) |->
                  IF i % 2 = 1
                  THEN (IF results[categories[(i + 1) \div 2]] THEN "PASS:" ELSE "FAIL:")
                  ELSE categories[i \div 2]]
               \o <<"Total:">>]

\* print_summary(results): one PASS or FAIL line per category, then whether
\* all passed.
print_summary(categories, results) ==
  LET total == Len(categories)
      passed == Cardinality({ i \in 1..total : results[categories[i]] })
  IN  [ok |-> passed = total,
       out |-> [i \in 1..(2 * total) |->
                  IF i % 2 = 1
                  THEN (IF results[categories[(i + 1) \div 2]] THEN "PASS:" ELSE "FAIL:")
                  ELSE categories[i \div 2]]
               \o <<"Total:">>]

\* The end of each main(): exit 0 after a successful summary, 1 otherwise.
validate_exit(d, f, categories, results) ==
  LET s == print_summary(categories, results)
  IN  IF s.ok THEN Result(d, f, 0, s.out \o <<"All validations passed!", "Next steps:">>)
      ELSE Result(d, f, 1, s.out \o <<"validation(s) failed">>)

\* validate_skill.py main() of the Gin skill
gin_validate_skill_main(d, f) ==
  validate_exit(d, f, <<"Skill Structure", "SKILL.md Format", "Scripts", "Documentation">>,
                [c \in {"Skill Structure", "SKILL.md Format", "Scripts", "Documentation"} |->
                   CASE c = "Skill Structure" -> gin_validate_skill_structure(d, f)
                     [] c = "SKILL.md Format" ->
                          validate_skill_md(d, f, "gin", {"name:", "description:"})
                     [] c = "Scripts" -> gin_validate_scripts(d, f)
                     [] c = "Documentation" -> validate_readme(d, f, "gin")])

MonoSkillScripts == { "init_project.py", "generate_package.py", "add_component.py",
                      "validate_skill.py" }

\* validate_scripts(skill_path) of the monorepo script
mono_validate_scripts(d, f) ==
  IF ~check_directory_exists(d, f, <<C("scripts")>>) THEN FALSE
  ELSE \A s \in MonoSkillScripts : check_file_exists(d, f, ScriptPath(s))

\* validate_documentation(skill_path) of the monorepo script
mono_validate_documentation(d, f) ==
  /\ check_file_exists(d, f, <<C("README.md")>>)
  /\ check_file_exists(d, f, <<C("LICENSE")>>)

\* validate_skill.py main() of the monorepo skill; validate_references and
\* validate_examples return True on every path.
mono_validate_skill_main(d, f) ==
  validate_exit(d, f, <<"SKILL.md", "Scripts", "Documentation", "References", "Examples">>,
                [c \in {"SKILL.md", "Scripts", "Documentation", "References", "Examples"} |->
                   CASE c = "SKILL.md" ->
                          validate_skill_md(d, f, "monorepo",
                                            {"name:", "description:", "version:", "license:"})
                     [] c = "Scripts" -> mono_validate_scripts(d, f)
                     [] c = "Documentation" -> mono_validate_documentation(d, f)
                     [] OTHER -> TRUE])

ReactSkillScripts ==
  { "init_project.py", "add_component.py", "generate_page.py", "generate_component.py",
    "generate_hook.py" }

\* validate_skill_structure(skill_path) of the React script
react_validate_skill_structure(d, f) ==
  /\ check_file_exists(d, f, <<C("SKILL.md")>>)
  /\ check_file_exists(d, f, <<C("README.md")>>)
  /\ \A s \in ReactSkillScripts : check_file_exists(d, f, ScriptPath(s))
  /\ \A p \in SkillDirs : check_directory_exists(d, f, p)

\* validate_scripts(skill_path) of the React script: every script exists,
\* is executable (os.access tells) and starts with "#!" and names python.
react_validate_scripts(d, f, not_executable) ==
  \A s \in ReactSkillScripts :
    /\ Exists(d, f, ScriptPath(s))
    /\ s \notin not_executable
    /\ \E line \in Shebangs : FirstLineIs(f[ScriptPath(s)], line)

\* validate_skill.py main() of the React skill: the summary is printed in
\* main, which returns 0 when all(results.values()).
react_validate_skill_main(d, f, not_executable) ==
  validate_exit(d, f, <<"Skill Structure", "SKILL.md Format", "Scripts", "Documentation">>,
                [c \in {"Skill Structure", "SKILL.md Format", "Scripts", "Documentation"} |->
                   CASE c = "Skill Structure" -> react_validate_skill_structure(d, f)
                     [] c = "SKILL.md Format" -> react_validate_skill_md(d, f)
                     [] c = "Scripts" -> react_validate_scripts(d, f, not_executable)
                     [] c = "Documentation" -> validate_readme(d, f, "react")])

\* The skill whose validate_skill.py the tree holds.
SkillOf(f) ==
  IF ScriptPath("validate_skill.py") \in DOMAIN f
  THEN f[ScriptPath("validate_skill.py")][2].k[1]
  ELSE ""

\* The scripts os.access reports as not executable.
NotExecutableTried == { {}, {"init_project.py"} }

GinValidateSkill ==
  /\ SkillOf(files) = "gin"
  /\ \E not_executable \in NotExecutableTried :
       Run(Call("gin/validate_skill", << >>, "", not_executable, "", ""),
           gin_validate_skill_main(dirs, files))

MonoValidateSkill ==
  /\ SkillOf(files) = "monorepo"
  /\ \E not_executable \in NotExecutableTried :
       Run(Call("monorepo/validate_skill", << >>, "", not_executable, "", ""),
           mono_validate_skill_main(dirs, files))

ReactValidateSkill ==
  /\ SkillOf(files) = "react"
  /\ \E not_executable \in NotExecutableTried :
       Run(Call("react/validate_skill", << >>, "", not_executable, "", ""),
           react_validate_skill_main(dirs, files, not_executable))

(***************************************************************************)
(* Specifications                                                          *)
(***************************************************************************)

Start(t) ==
  /\ dirs = t.dirs
  /\ files = t.files
  /\ status = -1
  /\ stdout = << >>
  /\ call = NoCall
  /\ before = t
  /\ repeat = FALSE
  /\ runs = 0
  /\ fn = ""
  /\ arg = << >>
  /\ ret = << >>
  /\ procs = << >>

\* The generators that keep an index.ts, and the page generators beside them,
\* on React and monorepo projects.
Init == \E t \in {MissingTree, EmptyTree, NodeTree, MonorepoTree} : Start(t)

Next ==
  \/ ReactGenerateComponent
  \/ ReactGenerateHook
  \/ ReactGeneratePage
  \/ MonoGenerateComponent
  \/ MonoGenerateHook
  \/ MonoGeneratePage

Spec == Init /\ [][Next]_vars

\* The Gin generators on Gin projects.
InitGin == \E t \in {MissingTree, EmptyTree, GinBareTree, GinTree} : Start(t)

NextGin ==
  \/ GinAddInfrastructure
  \/ GinAddMiddleware
  \/ GinGenerateDomain

SpecGin == InitGin /\ [][NextGin]_vars

\* The scripts that touch .env.example and the backend locator, on Gin
\* projects and on every layout of packages/.
InitAuth ==
  \E t \in {MissingTree, EmptyTree, GinTree, GinBareTree, MonorepoTree, MonorepoEnvTree}
           \cup PackageLayouts : Start(t)

NextAuth ==
  \/ GinAddAuth
  \/ MonoAddAuth
  \/ MonoGenerateDocs

SpecAuth == InitAuth /\ [][NextAuth]_vars

\* The single-project scripts (Gin, React, Next.js) on every kind of root.
InitProject ==
  \E t \in {MissingTree, EmptyTree, NodeTree, GinBareTree, GinTree} : Start(t)

NextProject ==
  \/ GinAddInfrastructure
  \/ GinAddMiddleware
  \/ GinGenerateDomain
  \/ GinAddAuth
  \/ ReactGenerateComponent
  \/ ReactGenerateHook
  \/ ReactGeneratePage
  \/ ReactAddComponent
  \/ NextGeneratePage
  \/ NextGenerateAuthComponents

SpecProject == InitProject /\ [][NextProject]_vars

\* The scripts above together, on every kind of project.
InitAll ==
  \E t \in {MissingTree, EmptyTree, NodeTree, GinBareTree, GinTree, MonorepoTree} : Start(t)

NextAll ==
  \/ NextProject
  \/ MonoGenerateComponent
  \/ MonoGenerateHook
  \/ MonoGeneratePage
  \/ MonoAddAuth
  \/ MonoGenerateDocs

SpecAll == InitAll /\ [][NextAll]_vars

\* The frontend scripts of the monorepo skill, on a monorepo and on
\* directories that are none.
InitMono == \E t \in {MissingTree, EmptyTree, MonorepoTree} : Start(t)

NextMono ==
  \/ MonoGenerateComponent
  \/ MonoGenerateHook
  \/ MonoGeneratePage
  \/ MonoAddComponent

SpecMono == InitMono /\ [][NextMono]_vars

\* Two runs of the same create_component for two different names, started
\* together on a project whose index.ts is absent or was left by an
\* earlier run.
RaceTrees(script) ==
  IF script = "react/generate_component"
  THEN { NodeTree,
         LET r == react_create_component(NodeTree.dirs, NodeTree.files, <<"o">>, "basic",
                                         "components", "")
         IN  Tree(r.dirs, r.files) }
  ELSE { MonorepoTree,
         LET r == mono_create_component(MonorepoTree.dirs, MonorepoTree.files, Pkg("frontend"),
                                        <<"o">>, "basic", "components")
         IN  Tree(r.dirs, r.files) }

RaceTypes(script) ==
  IF script = "react/generate_component" THEN ReactComponentTypesTried
  ELSE MonoComponentTypesTried

InitRace ==
  \E script \in RaceScripts :
    \E t \in RaceTrees(script), type1 \in RaceTypes(script), type2 \in RaceTypes(script) :
      /\ dirs = t.dirs
      /\ files = t.files
      /\ status = -1
      /\ stdout = << >>
      /\ call = NoCall
      /\ before = t
      /\ repeat = FALSE
      /\ runs = 0
      /\ fn = ""
      /\ arg = << >>
      /\ ret = << >>
      /\ procs = [i \in Procs |->
                    [script |-> script,
                     name |-> IF i = 1 THEN <<"a", "-", "b">> ELSE <<"u", "s", "e", "_", "C">>,
                     type |-> IF i = 1 THEN type1 ELSE type2,
                     pc |-> "component",
                     seen |-> << >>]]

NextRace ==
  \E i \in Procs :
    \/ RaceWriteComponent(i)
    \/ RaceIndexExists(i)
    \/ RaceReadIndex(i)
    \/ RaceWriteIndex(i)
    \/ RaceCreateIndex(i)
    \/ RaceAppendIndex(i)

SpecRace == InitRace /\ [][NextRace]_vars

\* generate_domain.py alone, on Gin projects with and without the
\* directories it writes into.
InitDomain == \E t \in {MissingTree, GinBareTree} \cup GinPartialTrees : Start(t)

NextDomain == GinGenerateDomain

SpecDomain == InitDomain /\ [][NextDomain]_vars

\* add_component.py of the monorepo skill alone, on a monorepo and on
\* directories that are none.
InitShadcn == \E t \in {MissingTree, EmptyTree, MonorepoTree} : Start(t)

NextShadcn == MonoAddComponent

SpecShadcn == InitShadcn /\ [][NextShadcn]_vars

\* The string functions of the Gin skill, applied to a type string or a
\* --fields string.  The type strings tried: a table key, a key in another
\* letter case, or another word, behind up to MaxDepth modifiers and with
\* or without surrounding blanks.
MaxDepth == 2

TypeWords ==
  { <<"i", "n", "t">>,
    <<"s", "t", "r", "i", "n", "g">>,
    <<"t", "i", "m", "e">>,
    <<"u", "u", "i", "d">>,
    <<"b", "y", "t", "e", "s">>,
    <<"i", "n", "t", "e", "g", "e", "r">>,
    <<"I", "N", "T">>,
    <<"T", "i", "m", "e">>,
    <<"B", "O", "O", "L">>,
    <<"S", "t", "r", "i", "n", "g">>,
    <<"f", "o", "o">>,
    << >> }

Modifiers == { <<"[", "]">>, <<"*">> }

RECURSIVE Wrappers(_)
Wrappers(n) ==
  IF n = 0 THEN { << >> }
  ELSE Wrappers(n - 1) \cup { m \o w : m \in Modifiers, w \in Wrappers(n - 1) }

Pads == { << >>, <<" ">> }

TypeStrings ==
  { l \o m \o w \o r : l \in Pads, m \in Wrappers(MaxDepth), w \in TypeWords, r \in Pads }

\* The --fields strings tried: up to MaxFields tokens joined by commas, and
\* the three fields of the usage example.
MaxFields == 2

FieldTokens ==
  { <<"n", "a", "m", "e", ":", "s", "t", "r", "i", "n", "g">>,
    <<"a", "g", "e", ":", "i", "n", "t">>,
    <<"a", "c", "t", "i", "v", "e", ":", "b", "o", "o", "l">>,
    <<"c", "r", "e", "a", "t", "e", "d", "A", "t", ":", "t", "i", "m", "e">>,
    <<"u", ":", "u", "u", "i", "d">>,
    <<"n", ":", "i", "n", "t", "6", "4">>,
    <<"f", ":", "f", "l", "o", "a", "t", "6", "4">>,
    <<":", "i", "n", "t">>,
    <<" ", ":", "s", "t", "r", "i", "n", "g">>,
    <<"x">>,
    <<"i", "d", "s", ":", "[", "]", "i", "n", "t">>,
    <<"a", "t", ":", "*", "t", "i", "m", "e">>,
    <<"s", ":", "S", "t", "r", "i", "n", "g">>,
    <<"b", ":", "B", "O", "O", "L">>,
    <<"t", ":", "T", "i", "m", "e">> }

RECURSIVE FieldLists(_)
FieldLists(n) ==
  IF n = 1 THEN FieldTokens
  ELSE { l \o <<",">> \o t : l \in FieldLists(n - 1), t \in FieldTokens }

ExampleFields ==
  <<"n", "a", "m", "e", ":", "s", "t", "r", "i", "n", "g", ",", "a", "g", "e", ":", "i", "n", "t", ",", "a", "c", "t", "i", "v", "e", ":", "b", "o", "o", "l">>

FieldStrings ==
  { << >>, ExampleFields } \cup UNION { FieldLists(n) : n \in 1..MaxFields }

Apply(f, r) ==
  /\ fn' = f
  /\ ret' = r
  /\ UNCHANGED <<dirs, files, status, stdout, call, before, repeat, runs, arg, procs>>

MapType == Apply("map_type", map_type(arg))

FieldMapType == Apply("Field._map_type", Field_map_type(arg))

ParseFields == Apply("parse_fields", parse_fields(arg))

GenerateEntity ==
  \E name \in DomainNames :
    Apply("generate_entity", generate_entity(LowerAll(name), parse_fields(arg), << >>))

InitTypes ==
  /\ dirs = EmptyTree.dirs
  /\ files = EmptyTree.files
  /\ status = -1
  /\ stdout = << >>
  /\ call = NoCall
  /\ before = EmptyTree
  /\ repeat = FALSE
  /\ runs = 0
  /\ fn = ""
  /\ arg \in TypeStrings \cup FieldStrings
  /\ ret = << >>
  /\ procs = << >>

NextTypes ==
  \/ MapType
  \/ FieldMapType
  \/ ParseFields
  \/ GenerateEntity

SpecTypes == InitTypes /\ [][NextTypes]_vars

\* The project and package creators on a path that does not exist, an empty
\* directory, a directory with an empty packages/ and a monorepo.
InitCreate ==
  \E t \in {MissingTree, EmptyTree, PackageLayout("absent", "absent"), MonorepoTree} : Start(t)

NextCreate ==
  \/ GinInitProject
  \/ MonoInitProject
  \/ MonoGeneratePackage

SpecCreate == InitCreate /\ [][NextCreate]_vars

\* The monorepo creators and add_component after them, on a path that does
\* not exist and on a directory with an empty packages/.
InitPackages == \E t \in {MissingTree, PackageLayout("absent", "absent")} : Start(t)

NextPackages ==
  \/ MonoInitProject
  \/ MonoGeneratePackage
  \/ MonoAddComponent

SpecPackages == InitPackages /\ [][NextPackages]_vars

\* The React and the Next.js init_project and the Next.js add_auth, on a
\* path that does not exist and on what an earlier run left there.
InitNode == Start(MissingTree)

NextNode ==
  \/ ReactInitProject
  \/ NextInitProject
  \/ NextAddAuth

SpecNode == InitNode /\ [][NextNode]_vars

\* A complete skill directory: SKILL.md with its frontmatter and sections,
\* README.md, LICENSE, the scripts with their shebang, references/ and
\* examples/.
SkillScripts(skill) ==
  (CASE skill = "gin" -> GinSkillScripts
     [] skill = "monorepo" -> MonoSkillScripts
     [] skill = "react" -> ReactSkillScripts) \cup {"validate_skill.py"}

SkillMd(skill) ==
  Text(<<"---", "name:", "description:", "---", "version:", "license:">>)
    \o Text(CASE skill = "gin" -> << "# Gin Developer Skill", "## Overview", "## Architecture",
                                     "## Scripts", "## Usage Guidelines" >>
              [] skill = "monorepo" -> << "# Monorepo Developer Skill", "## Overview",
                                          "## Tech Stack", "## Project Structure", "## Scripts",
                                          "## Usage Guidelines" >>
              [] skill = "react" -> << "# React Developer Skill", "## Overview", "## Tech Stack",
                                       "## Scripts", "## Usage Guidelines" >>)

Readme(skill) ==
  Text(CASE skill = "gin" -> << "# Gin Developer Skill", "## Overview", "## Quick Start",
                                "## Project Structure", "## Scripts", "## Architecture" >>
         [] skill = "monorepo" -> << "# Monorepo Developer Skill" >>
         [] skill = "react" -> << "# React Developer Skill", "## Features", "## Quick Start",
                                  "## Scripts", "## Project Structure" >>)

SkillTree(skill) ==
  LET scripts == { ScriptPath(s) : s \in SkillScripts(skill) }
      docs == IF skill = "gin" THEN GinSkillDocs
              ELSE { <<C("references"), C("notes.md")>>, <<C("examples"), C("basic.md")>> }
      top == { <<C("SKILL.md")>>, <<C("README.md")>>, <<C("LICENSE")>> }
  IN  Tree({Root} \cup SkillDirs,
           [p \in scripts \cup docs \cup top |->
              IF p \in scripts THEN Text(<<"#!/usr/bin/env python3", skill>>)
              ELSE IF p = <<C("SKILL.md")>> THEN SkillMd(skill)
                   ELSE IF p = <<C("README.md")>> THEN Readme(skill)
                        ELSE Text(<<"text">>)])

\* What may be wrong with a skill directory: a path is missing (with all
\* below it), a line is missing from a text, a line has moved to the end
\* of its text, a script starts with another line.
Fault(kind, path, line) == [kind |-> kind, path |-> path, line |-> line]

Faults ==
  { Fault("rm", <<C("SKILL.md")>>, ""), Fault("rm", <<C("README.md")>>, ""),
    Fault("rm", <<C("LICENSE")>>, ""), Fault("rm", ScriptPath("init_project.py"), ""),
    Fault("rm", <<C("references")>>, ""), Fault("rm", <<C("examples")>>, ""),
    Fault("cut", <<C("SKILL.md")>>, "---"), Fault("cut", <<C("SKILL.md")>>, "description:"),
    Fault("cut", <<C("SKILL.md")>>, "## Overview"), Fault("cut", <<C("README.md")>>, "## Scripts"),
    Fault("late", <<C("SKILL.md")>>, "name:"),
    Fault("first", ScriptPath("init_project.py"), "#!/usr/bin/python3"),
    Fault("first", ScriptPath("init_project.py"), "import sys") }

MaxFaults == 2

IsBelow(q, p) == Len(q) >= Len(p) /\ SubSeq(q, 1, Len(p)) = p

WithFault(t, u) ==
  LET content == t.files[u.path]
      Keep(l) == l # TextLine(u.line)
  IN  IF u.kind = "rm"
      THEN Tree({ q \in t.dirs : ~IsBelow(q, u.path) },
                [q \in { q \in DOMAIN t.files : ~IsBelow(q, u.path) } |-> t.files[q]])
      ELSE IF u.path \notin DOMAIN t.files THEN t
           ELSE Tree(t.dirs,
                     [t.files EXCEPT ![u.path] =
                        CASE u.kind = "cut" -> SelectSeq(content, Keep)
                          [] u.kind = "late" -> SelectSeq(content, Keep) \o Text(<<u.line>>)
                          [] u.kind = "first" -> Text(<<u.line>>) \o Tail(content)])

RECURSIVE WithFaults(_, _)
WithFaults(t, S) ==
  IF S = {} THEN t
  ELSE LET u == CHOOSE x \in S : TRUE
       IN  WithFaults(WithFault(t, u), S \ {u})

\* The validators, each on its own skill directory with up to MaxFaults
\* things wrong.
InitValidate ==
  \E skill \in {"gin", "monorepo", "react"} :
    \E S \in SUBSET Faults :
      /\ Cardinality(S) <= MaxFaults
      /\ Start(WithFaults(SkillTree(skill), S))

NextValidate ==
  \/ GinValidateSkill
  \/ MonoValidateSkill
  \/ ReactValidateSkill

SpecValidate == InitValidate /\ [][NextValidate]_vars

(***************************************************************************)
(* Properties                                                              *)
(***************************************************************************)

\* The run that has just ended was made on a root with the script's marker.
RanOnGoProject == GoProjectError(before.dirs, before.files) = << >>

IndexFiles == { p \in DOMAIN files : p[Len(p)] = C("index.ts") }

Occurrences(content, line) == Cardinality({ i \in 1..Len(content) : content[i] = line })

\* C1: after any sequence of generator runs, every export line occurs at
\* most once in every index.ts (React and monorepo component and hook
\* generators).
C1_ExportLineAtMostOnce ==
  \A p \in IndexFiles :
    \A i \in 1..Len(files[p]) : Occurrences(files[p], files[p][i]) = 1

EnvExample == <<C(".env.example")>>

JwtSecretLines(content) == Cardinality({ i \in 1..Len(content) : content[i].k[1] = "JWT_SECRET" })

\* C2: after an auth generator (Gin add_auth, monorepo add_auth) has run on a
\* project that already had .env.example, the JWT_SECRET line occurs exactly
\* once in .env.example, however often the generator is run.
C2_JwtSecretOnce ==
  (/\ call.script \in {"gin/add_auth", "monorepo/add_auth"}
   /\ status = 0
   /\ EnvExample \in DOMAIN before.files)
    => JwtSecretLines(files[EnvExample]) = 1

\* The scripts that generate files from their own templates.
Generators ==
  { "react/generate_component", "react/generate_hook", "react/generate_page",
    "monorepo/generate_component", "monorepo/generate_hook", "monorepo/generate_page",
    "monorepo/add_auth", "monorepo/generate_docs",
    "gin/add_infrastructure", "gin/add_middleware", "gin/generate_domain", "gin/add_auth",
    "nextjs/generate_page", "nextjs/generate_auth_components" }

\* C3: a generator run a second time with the arguments of the first run, on
\* the target the first run left, leaves the same files with the same bytes.
C3_SecondRunIdentical ==
  (runs = 2 /\ repeat /\ call.script \in Generators) => Tree(dirs, files) = before

\* The pair (type, provider) of the add_infrastructure run that has just
\* ended passed the resolver and the project checks.
InfraAccepted ==
  /\ call.script = "gin/add_infrastructure"
  /\ call.opt \in SUPPORTED_TYPES(call.type)
  /\ RanOnGoProject

\* The pairs create_infrastructure has an interface and an implementation for.
InfraRegistered ==
  { <<"storage", "local">>, <<"storage", "s3">>, <<"storage", "gcs">>,
    <<"cache", "redis">>, <<"cache", "memory">> }

InfraInterfaceFile == <<C("internal"), C("infrastructure"), C(call.type), F(<<call.type>>, ".go")>>

InfraImplFile == <<C("internal"), C("infrastructure"), C(call.type), F(<<call.opt>>, ".go")>>

\* C5: add_infrastructure exits with status 1 whenever the accepted pair has
\* no generator, and exits with status 0 only when the interface file and
\* the implementation file were written.
C5_UnsupportedExitsOne ==
  InfraAccepted
    => /\ <<call.type, call.opt>> \notin InfraRegistered => status = 1
       /\ status = 0 => /\ InfraInterfaceFile \in DOMAIN files
                        /\ InfraImplFile \in DOMAIN files

\* C6: for every registered pair, create_infrastructure writes exactly the
\* two files internal/infrastructure/<type>/<type>.go and
\* internal/infrastructure/<type>/<provider>.go, and prints the list
\* get_dependencies returns; for (cache, redis) the list printed contains
\* github.com/redis/go-redis/v9.
C6_TwoFilesAndDependencies ==
  (InfraAccepted /\ <<call.type, call.opt>> \in InfraRegistered)
    => /\ status = 0
       /\ DOMAIN files = DOMAIN before.files \cup {InfraInterfaceFile, InfraImplFile}
       /\ \A p \in DOMAIN before.files \ {InfraInterfaceFile, InfraImplFile} :
            files[p] = before.files[p]
       /\ files[InfraInterfaceFile] = infra_interface_content(call.type)
       /\ files[InfraImplFile] = infra_impl_content(call.type, call.opt)
       /\ InfraInterfaceFile # InfraImplFile
       /\ \A i \in 1..Len(infra_dependencies(call.type, call.opt)) :
            HasLine(stdout, infra_dependencies(call.type, call.opt)[i])
       /\ (infra_dependencies(call.type, call.opt) = << >>)
            => ~HasLine(stdout, "Required dependencies:")
       /\ (call.type = "cache" /\ call.opt = "redis")
            => HasLine(stdout, "github.com/redis/go-redis/v9")

C6_Witness ==
  /\ InfraAccepted
  /\ call.type = "cache" /\ call.opt = "redis"
  /\ InfraInterfaceFile \in DOMAIN files \ DOMAIN before.files
  /\ InfraImplFile \in DOMAIN files \ DOMAIN before.files
  /\ HasLine(stdout, "github.com/redis/go-redis/v9")

\* C9: run against a root that has a valid go.mod, the domain generator
\* creates whatever internal/... directories are missing and writes all five
\* files.
C9_DomainCreatesParents ==
  (/\ call.script = "gin/generate_domain"
   /\ RanOnGoProject
   /\ ModulePath(before.files[<<C("go.mod")>>]) # << >>)
    => /\ status = 0
       /\ LET w == DomainWrites(LowerAll(call.name), call.opt,
                                ModulePath(before.files[<<C("go.mod")>>]))
          IN  \A i \in 1..Len(w) :
                /\ Parent(w[i].path) \in dirs
                /\ w[i].path \in DOMAIN files
                /\ files[w[i].path] = w[i].text

GinScripts ==
  {"gin/add_infrastructure", "gin/add_middleware", "gin/generate_domain", "gin/add_auth"}

ReactGenerators == {"react/generate_component", "react/generate_hook", "react/generate_page"}

NodeScripts ==
  ReactGenerators \cup {"react/add_component", "nextjs/generate_page",
                        "nextjs/generate_auth_components"}

MonoScripts ==
  { "monorepo/generate_component", "monorepo/generate_hook", "monorepo/generate_page",
    "monorepo/add_auth", "monorepo/generate_docs" }

\* The marker file of the script that has just run is absent from the root
\* it ran on.
MarkerAbsent ==
  \/ call.script \in GinScripts /\ ~Exists(before.dirs, before.files, <<C("go.mod")>>)
  \/ call.script \in NodeScripts /\ ~Exists(before.dirs, before.files, <<C("package.json")>>)

\* The provider is not in the allow-list of its infrastructure type.
ProviderRejected ==
  call.script = "gin/add_infrastructure" /\ call.opt \notin SUPPORTED_TYPES(call.type)

\* add_component.py was asked for its catalogue only.
ListOnly == call.script = "react/add_component" /\ call.opt = "--list"

\* C7 as stated: when the marker file is absent, or the provider is not in
\* the allow-list of its type, the script exits with status 1 and has
\* created no file and no directory.
C7_Original ==
  (MarkerAbsent \/ ProviderRejected) => status = 1 /\ Tree(dirs, files) = before

\* C7: when the marker file is absent, or the provider is not in the
\* allow-list of its type, the script has created no file and no directory,
\* and it exits with status 1, except add_component.py --list, which prints
\* the catalogue and exits with status 0 without looking at the project.
C7_ValidationBeforeSideEffects ==
  (MarkerAbsent \/ ProviderRejected)
    => /\ Tree(dirs, files) = before
       /\ status = IF ListOnly THEN 0 ELSE 1

C7_Witness ==
  /\ call.script = "react/generate_component"
  /\ MarkerAbsent
  /\ Exists(before.dirs, before.files, Root)
  /\ status = 1
  /\ Tree(dirs, files) = before

BackendScripts == {"monorepo/add_auth", "monorepo/generate_docs"}

\* packages/<name> was a directory containing src when the run started.
HadSrc(name) ==
  /\ IsDir(before.dirs, Pkg(name))
  /\ Exists(before.dirs, before.files, Pkg(name) \o <<C("src")>>)

\* The package the run reported as its target.
Returned(name) == status = 0 /\ Len(stdout) >= 2 /\ SubSeq(stdout, 1, 2) = <<"Target package:", name>>

PackageEntryNames ==
  { e[2][1][1] : e \in Entries(before.dirs, before.files, <<C("packages")>>) }

\* C8: without --package, find_backend_package returns P only if packages/P
\* is a directory that contains src, and fails only if there is no such
\* package; with --package N it returns packages/N if and only if
\* packages/N/src exists, and otherwise the script exits with status 1
\* without falling back to another package.  With only packages/backend/src
\* and packages/frontend/components.json, a backend request resolves to
\* packages/backend and --package frontend fails.
C8_BackendLocator ==
  call.script \in BackendScripts
    => /\ call.pkg = ""
            => /\ status \in {0, 1}
               /\ status = 0 => \E n \in PackageEntryNames : Returned(n) /\ HadSrc(n)
               /\ status = 1 => /\ \A n \in PackageEntryNames : ~HadSrc(n)
                                /\ Tree(dirs, files) = before
       /\ call.pkg # ""
            => IF Exists(before.dirs, before.files, Pkg(call.pkg) \o <<C("src")>>)
               THEN Returned(call.pkg)
               ELSE status = 1 /\ Tree(dirs, files) = before
       /\ before = PackageLayout("src", "components.json")
            => /\ call.pkg = "" => Returned("backend")
               /\ call.pkg = "frontend" => status = 1

C8_Witness ==
  /\ call.script = "monorepo/add_auth"
  /\ before = PackageLayout("src", "components.json")
  /\ call.pkg = "frontend"
  /\ status = 1
  /\ Tree(dirs, files) = before

\* The project a script is meant for, as its init_project leaves it.
CleanTree(script) ==
  IF script \in GinScripts THEN GinTree
  ELSE IF script \in MonoScripts THEN MonorepoTree
       ELSE NodeTree

\* The run of invocation c on tree t, the overwrite prompt answered with y.
Outcome(c, t) ==
  CASE c.script = "react/generate_component" ->
         react_generate_component_main(t.dirs, t.files, c.name, c.type, c.opt, "y")
    [] c.script = "react/generate_hook" ->
         react_generate_hook_main(t.dirs, t.files, c.name, c.type, "y")
    [] c.script = "react/generate_page" ->
         react_generate_page_main(t.dirs, t.files, c.name, c.type, c.opt = "--with-layout", "y")
    [] c.script = "monorepo/generate_component" ->
         mono_generate_component_main(t.dirs, t.files, c.name, c.type, c.opt, c.pkg, << >>)
    [] c.script = "monorepo/generate_hook" ->
         mono_generate_hook_main(t.dirs, t.files, c.name, c.type, c.pkg, << >>)
    [] c.script = "monorepo/generate_page" ->
         mono_generate_page_main(t.dirs, t.files, c.name, c.type, c.pkg, << >>)
    [] c.script = "monorepo/add_auth" ->
         mono_add_auth_main(t.dirs, t.files, c.type, c.pkg, << >>)
    [] c.script = "monorepo/generate_docs" ->
         mono_generate_docs_main(t.dirs, t.files, c.name, c.type, c.pkg, << >>)
    [] c.script = "gin/add_infrastructure" ->
         add_infrastructure_main(t.dirs, t.files, c.type, c.opt)
    [] c.script = "gin/add_middleware" -> add_middleware_main(t.dirs, t.files, c.type)
    [] c.script = "gin/generate_domain" -> generate_domain_main(t.dirs, t.files, c.name, c.opt)
    [] c.script = "gin/add_auth" -> gin_add_auth_main(t.dirs, t.files, c.opt)
    [] c.script = "nextjs/generate_page" ->
         next_generate_page_main(t.dirs, t.files, c.name, c.type)
    [] c.script = "nextjs/generate_auth_components" ->
         next_generate_auth_components_main(t.dirs, t.files, c.opt)

\* The files that are appended to rather than replaced.
IsAggregator(p) == p[Len(p)] \in {C("index.ts"), C(".env.example")}

\* The package a monorepo run reported as its target ("?" when it found none).
ChosenPackage ==
  IF call.script \in MonoScripts /\ status = 0 /\ Len(stdout) >= 2 /\ stdout[1] = "Target package:"
  THEN stdout[2]
  ELSE IF call.script \in MonoScripts THEN "?" ELSE call.pkg

\* The newly generated text of the invocation that has just run: what it
\* writes, aggregators aside, into a project that has none of its files yet.
NewText ==
  LET t == CleanTree(call.script)
      r == Outcome([call EXCEPT !.pkg = ChosenPackage], t)
  IN  [p \in { q \in DOMAIN r.files :
                 /\ ~IsAggregator(q)
                 /\ (q \notin DOMAIN t.files \/ r.files[q] # t.files[q]) } |-> r.files[p]]

\* The targets of the invocation that already existed when it started.
ExistingTargets ==
  IF call.script \in Generators THEN DOMAIN NewText \cap DOMAIN before.files ELSE {}

StringType == <<"s", "t", "r", "i", "n", "g">>

DefaultMapping == [go_type |-> StringType, imports |-> << >>]

\* The form of a type string that map_type looks up.
NormalizedType(type_str) == Strip(LowerAll(type_str))

\* C11 as stated: every type string that is not itself a key of the mapping
\* table is mapped to Go type string with no imports, by map_type and by
\* Field._map_type.
C11_Original ==
  /\ (fn = "map_type" /\ arg \notin DOMAIN TYPE_MAP) => ret = DefaultMapping
  /\ (fn = "Field._map_type" /\ arg \notin DOMAIN type_mapping) => ret = StringType

\* C11: a type string the mapper does not recognise is mapped to Go type
\* string with no imports.  map_type does not recognise a string whose
\* lower-cased, stripped form is not a key of TYPE_MAP and does not begin
\* with a modifier; Field._map_type does not recognise a string whose
\* lower-cased form is not a key of its table.
C11_UnrecognizedGivesString ==
  /\ ( /\ fn = "map_type"
       /\ NormalizedType(arg) \notin DOMAIN TYPE_MAP
       /\ \A m \in Modifiers : ~StartsWith(NormalizedType(arg), m) )
     => ret = DefaultMapping
  /\ (fn = "Field._map_type" /\ LowerAll(arg) \notin DOMAIN type_mapping)
     => ret = StringType

C11_Witness ==
  /\ fn = "map_type"
  /\ arg = <<"f", "o", "o", " ">>
  /\ ret = DefaultMapping

\* C12: for every type string T, map_type("[]" + T) is map_type(T) with "[]"
\* put before the Go type and the same imports, and map_type("*" + T) is
\* map_type(T) with "*" put before the Go type and the same imports; T
\* itself carries any number of modifiers up to MaxDepth.
C12_WrapperAroundInnerMapping ==
  fn = "map_type" =>
    \A m \in Modifiers :
      map_type(m \o arg) = [go_type |-> m \o ret.go_type, imports |-> ret.imports]

C12_Witness ==
  /\ fn = "map_type"
  /\ arg = <<"[", "]", "*", "t", "i", "m", "e">>
  /\ ret = [go_type |-> <<"[", "]", "*", "t", "i", "m", "e", ".", "T", "i", "m", "e">>, imports |-> <<"time">>]

\* tag is name in snake_case: the characters of name lower-cased, in order,
\* with one "_" before each upper-case character that is not the first.
IsSnakeCaseOf(name, tag) ==
  LET ups == { i \in 2..Len(name) : IsUpper(name[i]) }
      at(i) == i + Cardinality({ j \in ups : j <= i })
  IN  /\ Len(tag) = Len(name) + Cardinality(ups)
      /\ \A i \in 1..Len(name) :
           /\ tag[at(i)] = Lower(name[i])
           /\ i \in ups => tag[at(i) - 1] = "_"

\* The text of a struct field line with the given identifier, Go type and tags.
StructField(ident, go_type, json_tag, gorm_tag) ==
  <<"\t">> \o ident \o <<" ">> \o go_type \o <<" ", Backtick, "json:\"">> \o json_tag
    \o <<"\" gorm:\"">> \o gorm_tag \o <<"\"", Backtick>>

IsGeneratedField(line) == line.k = <<"field">>

\* The struct fields generate_entity put between ID and CreatedAt, in order.
GeneratedFields(content) ==
  LET lines == SelectSeq(content, IsGeneratedField)
  IN  [i \in 1..Len(lines) |-> lines[i].a]

\* C13: a field token whose type is one of string, int, int64, float64, bool,
\* time, uuid becomes a struct field whose Go type is the table entry of the
\* type and whose json tag is the snake_case of the name, and the entity
\* holds one such field per token, in the order of the tokens; for
\* "name:string,age:int,active:bool" the generated fields are exactly Name
\* string, Age int and Active bool with json tags name, age and active.
C13_TableTypeAndSnakeCaseTag ==
  /\ fn = "parse_fields" =>
       \A i \in 1..Len(ret) :
         ret[i].field_type \in DOMAIN type_mapping =>
           /\ ret[i].go_type = type_mapping[ret[i].field_type]
           /\ IsSnakeCaseOf(ret[i].name, ret[i].json_tag)
  /\ fn = "generate_entity" =>
       LET fields == parse_fields(arg)
       IN  GeneratedFields(ret) =
             [i \in 1..Len(fields) |->
                StructField(Capitalize(fields[i].name), fields[i].go_type,
                            fields[i].json_tag, fields[i].gorm_tag)]
  /\ (fn = "generate_entity" /\ arg = ExampleFields) =>
       GeneratedFields(ret) =
         << StructField(<<"N", "a", "m", "e">>, <<"s", "t", "r", "i", "n", "g">>,
                 <<"n", "a", "m", "e">>, <<"t", "y", "p", "e", ":", "v", "a", "r", "c", "h", "a", "r", "(", "2", "5", "5", ")">>),
            StructField(<<"A", "g", "e">>, <<"i", "n", "t">>,
                 <<"a", "g", "e">>, <<"t", "y", "p", "e", ":", "b", "i", "g", "i", "n", "t">>),
            StructField(<<"A", "c", "t", "i", "v", "e">>, <<"b", "o", "o", "l">>,
                 <<"a", "c", "t", "i", "v", "e">>, <<"t", "y", "p", "e", ":", "b", "o", "o", "l", "e", "a", "n", ";", "d", "e", "f", "a", "u", "l", "t", ":", "f", "a", "l", "s", "e">>) >>

C13_Witness ==
  /\ fn = "generate_entity"
  /\ arg = ExampleFields
  /\ Len(GeneratedFields(ret)) = 3

\* The modifier a declared type begins with, << >> when it begins with none.
ModifierOf(field_type) ==
  IF \E m \in Modifiers : StartsWith(field_type, m)
  THEN CHOOSE m \in Modifiers : StartsWith(field_type, m)
  ELSE << >>

\* C14: a field whose declared type is a modifier ([] or *) before an inner
\* type gets the modifier before the Go type of the inner type: ids:[]int
\* gets Go type []int and at:*time gets Go type *time.Time.
C14_ModifiersRewrapped ==
  fn = "parse_fields" =>
    \A i \in 1..Len(ret) :
      LET m == ModifierOf(ret[i].field_type)
          inner == SubSeq(ret[i].field_type, Len(m) + 1, Len(ret[i].field_type))
      IN  m # << >> => ret[i].go_type = m \o Field(ret[i].name, inner).go_type

\* The field a token gives when its declared type is spelled in lower case.
LowerCaseSpelling(field) == Field(field.name, LowerAll(field.field_type))

IsImportLine(line) == line.k = <<"import">>

\* The imports of an entity file, in order.
ImportsOf(content) ==
  LET lines == SelectSeq(content, IsImportLine)
  IN  [i \in 1..Len(lines) |-> lines[i].a]

\* C15: a field whose declared type differs from a table key only in letter
\* case gets the struct field declaration (Go type and gorm tag) of the
\* lower-case spelling, and the entity gets the imports of the lower-case
\* spelling.
C15_CaseInsensitiveLookup ==
  /\ fn = "parse_fields" =>
       \A i \in 1..Len(ret) :
         LowerAll(ret[i].field_type) \in DOMAIN type_mapping =>
           to_struct_field(ret[i]) = to_struct_field(LowerCaseSpelling(ret[i]))
  /\ fn = "generate_entity" =>
       LET fields == parse_fields(arg)
       IN  (\A i \in 1..Len(fields) : LowerAll(fields[i].field_type) \in DOMAIN type_mapping)
             => ImportsOf(ret) =
                  EntityImports([i \in 1..Len(fields) |-> LowerCaseSpelling(fields[i])])

\* C20: every field parse_fields returns has a non-empty name, whatever the
\* --fields string.
C20_FieldNamesNonEmpty ==
  fn = "parse_fields" => \A i \in 1..Len(ret) : ret[i].name # << >>

\* What a script prints when it finds no generator for a discriminator value.
NoGeneratorLines ==
  {"Unsupported combination", "Unsupported middleware type", "Unknown component type",
   "Unknown hook type", "Unknown page type", "Unknown auth type",
   "Unknown documentation type"}

\* C16: a discriminator value the argument parser accepted has a generator:
\* no run of a generator script ends in its unknown/unsupported branch.
C16_AcceptedValueHasGenerator == \A line \in NoGeneratorLines : ~HasLine(stdout, line)

FrontendScripts ==
  {"monorepo/generate_component", "monorepo/generate_hook", "monorepo/generate_page",
   "monorepo/add_component"}

\* The monorepo had, when the run started, a backend package with src and
\* without components.json, and a frontend package with src and components.json.
BackendAndFrontend ==
  /\ HadSrc("backend")
  /\ ~Exists(before.dirs, before.files, Pkg("backend") \o <<C("components.json")>>)
  /\ HadSrc("frontend")
  /\ Exists(before.dirs, before.files, Pkg("frontend") \o <<C("components.json")>>)

\* C17: a frontend script of the monorepo skill run without --package on a
\* monorepo with such a backend and such a frontend package does not take
\* the backend package as its target, in whatever order the packages are
\* listed.
C17_FrontendNeverBackend ==
  (call.script \in FrontendScripts /\ call.pkg = "" /\ BackendAndFrontend)
    => ~Returned("backend")

\* The components of the install commands a run issued, in order.
RECURSIVE CommandsFrom(_, _)
CommandsFrom(out, i) ==
  IF i >= Len(out) THEN << >>
  ELSE IF out[i] = "Running: npx shadcn@latest add"
       THEN <<out[i + 1]>> \o CommandsFrom(out, i + 2)
       ELSE CommandsFrom(out, i + 1)

\* C19: a run of the monorepo add_component.py that reaches add_components
\* issues the install command once for each requested component, in the
\* order of the arguments, whichever of the commands fail.
C19_OneCommandPerComponent ==
  (call.script = "monorepo/add_component" /\ HasLine(stdout, "Adding components to"))
    => CommandsFrom(stdout, 1) = Requested(call.opt.components, call.opt.preset)

C19_Witness ==
  /\ call.script = "monorepo/add_component"
  /\ CommandsFrom(stdout, 1) = <<"button", "card">>
  /\ HasLine(stdout, "Failed to add, continuing...")
  /\ ~HasLine(stdout, "Added")

\* The five writes of the run, as main() would make them on the tree the
\* run started from.
WritesOfRun ==
  DomainWrites(LowerAll(call.name), call.opt, ModulePath(before.files[<<C("go.mod")>>]))

\* The position of the first write whose parent directory was missing,
\* Len + 1 when there is none.
FirstFailing(writes) ==
  IF \E i \in 1..Len(writes) : ~CanWrite(before.dirs, writes[i].path)
  THEN CHOOSE i \in 1..Len(writes) :
         /\ ~CanWrite(before.dirs, writes[i].path)
         /\ \A j \in 1..(i - 1) : CanWrite(before.dirs, writes[j].path)
  ELSE Len(writes) + 1

\* The run got as far as writing files.
ReachedWrites ==
  /\ call.script = "gin/generate_domain"
  /\ <<C("go.mod")>> \in DOMAIN before.files
  /\ ModulePath(before.files[<<C("go.mod")>>]) # << >>

\* C18: generate_domain.py writes entity, repository interface, repository
\* implementation, use case and handler in this order; when the k-th write
\* fails the run ends there with the first k-1 files holding their new
\* content, the k-th and the later files as they were before the run, and
\* the messages of the first k-1 files printed.
C18_NoRollback ==
  ReachedWrites =>
    LET writes == WritesOfRun
        k == FirstFailing(writes)
    IN  /\ \A i \in 1..(k - 1) :
             writes[i].path \in DOMAIN files /\ files[writes[i].path] = writes[i].text
        /\ \A i \in k..Len(writes) :
             IF writes[i].path \in DOMAIN before.files
             THEN writes[i].path \in DOMAIN files
                  /\ files[writes[i].path] = before.files[writes[i].path]
             ELSE writes[i].path \notin DOMAIN files
        /\ dirs = before.dirs
        /\ SubSeq(stdout, 1, k - 1) = SubSeq(DomainMessages, 1, k - 1)
        /\ k <= Len(writes) => status = 1 /\ stdout[k] = "FileNotFoundError"
        /\ k > Len(writes) => status = 0

C18_Witness ==
  /\ ReachedWrites
  /\ FirstFailing(WritesOfRun) = 3
  /\ status = 1
  /\ WritesOfRun[2].path \in DOMAIN files
  /\ WritesOfRun[2].path \notin DOMAIN before.files
  /\ WritesOfRun[3].path \notin DOMAIN files

BothDone == procs # << >> /\ \A i \in Procs : procs[i].pc = "done"

\* index.ts holds the export line of process i.
Exported(i) ==
  /\ RaceIndexFile(procs[i]) \in DOMAIN files
  /\ HasLine(files[RaceIndexFile(procs[i])], RaceExportLine(procs[i]))

\* C21: nothing orders two create_component runs on one tree.  When both
\* have finished, both component files hold their content and index.ts
\* holds the export line of at least one of them; the export line of a
\* process is missing only when the other process wrote index.ts from what
\* it had seen before (an absent file, or a content without that line).
C21_LostExportOnlyByStaleWrite ==
  BothDone =>
    /\ \A i \in Procs :
         /\ RaceComponentFile(procs[i]) \in DOMAIN files
         /\ files[RaceComponentFile(procs[i])] = RaceContent(procs[i])
    /\ \E i \in Procs : Exported(i)
    /\ \A i, j \in Procs :
         (i # j /\ ~Exported(i)) =>
           /\ Exported(j)
           /\ ~HasLine(procs[j].seen, RaceExportLine(procs[i]))
           /\ procs[j].script = "monorepo/generate_component"
                => RaceIndexFile(procs[j]) \notin DOMAIN before.files

C21_Witness ==
  /\ BothDone
  /\ procs[1].script = "react/generate_component"
  /\ Exported(2)
  /\ ~Exported(1)

\* The same loss between two monorepo runs that both found index.ts absent.
C21_WitnessMonorepo ==
  /\ BothDone
  /\ procs[1].script = "monorepo/generate_component"
  /\ \E i \in Procs : ~Exported(i)

\* The struct of the entity file has a field of the given Go type: one of
\* the generated fields, or CreatedAt and UpdatedAt, which are time.Time.
StructHasType(content, fields, go_type) ==
  \/ \E i \in 1..Len(fields) : fields[i].go_type = go_type
  \/ /\ go_type = <<"t", "i", "m", "e", ".", "T", "i", "m", "e">>
     /\ \E i \in 1..Len(content) :
          Len(content[i].k) > 0 /\ content[i].k[1] = "\tCreatedAt time.Time "

\* C22: the entity file imports what its struct refers to: "time" whenever
\* a field is of type time.Time (CreatedAt and UpdatedAt always are), and
\* "github.com/google/uuid" whenever a field is of type uuid.UUID.
C22_ImportsCoverStruct ==
  fn = "generate_entity" =>
    LET fields == parse_fields(arg)
        imports == ImportsOf(ret)
    IN  /\ StructHasType(ret, fields, <<"t", "i", "m", "e", ".", "T", "i", "m", "e">>)
             => \E i \in 1..Len(imports) : imports[i] = <<"\t", "\"", "t", "i", "m", "e", "\"">>
        /\ StructHasType(ret, fields, <<"u", "u", "i", "d", ".", "U", "U", "I", "D">>)
             => \E i \in 1..Len(imports) : imports[i] = <<"\t", "\"", "g", "i", "t", "h", "u", "b", ".", "c", "o", "m", "/", "g", "o", "o", "g", "l", "e", "/", "u", "u", "i", "d", "\"">>

\* C23: when create_infrastructure or create_middleware ends in its
\* unsupported branch, the project tree is as it was: no file and no
\* directory (internal/infrastructure/<type>, pkg/middleware) was created.
C23_UnsupportedLeavesTree ==
  /\ (call.script = "gin/add_infrastructure" /\ HasLine(stdout, "Unsupported combination"))
       => dirs = before.dirs /\ files = before.files
  /\ (call.script = "gin/add_middleware" /\ HasLine(stdout, "Unsupported middleware type"))
       => dirs = before.dirs /\ files = before.files

\* The file the React run that has just ended was asked to create.
ReactTargetFile ==
  CASE call.script = "react/generate_component" ->
         <<C("src"), C(call.opt), F(to_pascal_case(call.name), ".tsx")>>
    [] call.script = "react/generate_hook" ->
         <<C("src"), C("hooks"), F(ensure_use_prefix(call.name), ".ts")>>
    [] call.script = "react/generate_page" ->
         <<C("src"), C("pages"), F(to_pascal_case(call.name) \o <<"Page">>, ".tsx")>>

\* The index.ts beside the target.
ReactTargetIndex == SubSeq(ReactTargetFile, 1, 2) \o <<C("index.ts")>>

\* The file is the same before and after the run (absent both times, or
\* present with the same content).
SameFile(p) ==
  /\ p \in DOMAIN files <=> p \in DOMAIN before.files
  /\ p \in DOMAIN files => files[p] = before.files[p]

\* The target existed and the reply at the prompt was neither y nor Y.
ReactDeclinedRun ==
  /\ call.script \in ReactGenerators
  /\ ReactTargetFile \in DOMAIN before.files
  /\ call.answer \notin {"y", "Y"}

\* C24: when the target of React's create_component, create_hook or
\* create_page exists and the reply is not y or Y, the run reports failure
\* (no success line, exit status 1) and leaves the target file and index.ts
\* as they were.
C24_DeclineLeavesFiles ==
  ReactDeclinedRun
    => /\ status = 1
       /\ HasLine(stdout, "Cancelled")
       /\ \A i \in 1..Len(stdout) :
            stdout[i] \notin {"Component generated successfully!",
                              "Hook generated successfully!", "Page generated successfully!"}
       /\ SameFile(ReactTargetFile)
       /\ SameFile(ReactTargetIndex)

C24_Witness ==
  /\ ReactDeclinedRun
  /\ call.script = "react/generate_hook"
  /\ call.answer = "n"
  /\ status = 1
  /\ ReactTargetIndex \in DOMAIN files
  /\ files = before.files

\* Some requested component of the add_component run that has just ended
\* was not installed.
SomeComponentFailed ==
  /\ call.script = "monorepo/add_component"
  /\ HasLine(stdout, "Failed to add, continuing...")

\* C26: the monorepo add_component exits 0 and prints "Components added
\* successfully!" only when every requested component was installed; when
\* some installation failed the exit status is not 0.
C26_SuccessOnlyIfAllInstalled ==
  SomeComponentFailed
    => /\ status # 0
       /\ ~HasLine(stdout, "Components added successfully!")

\* The run that has just ended was asked to create something that existed:
\* the project directory, or packages/<name>.
CreateOverExisting ==
  \/ /\ call.script \in {"gin/init_project", "monorepo/init_project"}
     /\ Exists(before.dirs, before.files, Root)
  \/ /\ call.script = "monorepo/generate_package"
     /\ Exists(before.dirs, before.files, Pkg(call.pkg))

\* C25: the Gin and the monorepo init_project exit 1 when the project
\* directory exists, generate_package exits 1 when packages/<name> exists,
\* and in each case no file or directory is created or modified.
C25_ExistingTargetUntouched ==
  CreateOverExisting
    => /\ status = 1
       /\ dirs = before.dirs
       /\ files = before.files

C25_Witness ==
  /\ CreateOverExisting
  /\ call.script = "monorepo/generate_package"
  /\ call.type = "frontend"
  /\ Pkg(call.pkg) \o <<C("components.json")>> \notin DOMAIN before.files
  /\ status = 1
  /\ files = before.files

\* The init_project scripts reach the same exit on an existing directory.
C25_WitnessInit ==
  /\ runs = 2
  /\ before.dirs # {}
  /\ call.script = "gin/init_project"
  /\ Exists(before.dirs, before.files, <<C("packages")>>)
  /\ status = 1

\* The package a run of add_component named as its target ("" when it
\* found none, or only listed the components).
TargetOf(out) == IF Len(out) >= 2 /\ out[1] = "Target package:" THEN out[2] ELSE ""

\* The run that has just ended created a monorepo, or a package of one of
\* the given types.
CreatedProject == call.script = "monorepo/init_project" /\ status = 0

CreatedPackage(types) ==
  call.script = "monorepo/generate_package" /\ status = 0 /\ call.type \in types

\* The step is a run of add_component that looks for a package.
AddComponentFollows ==
  /\ call'.script = "monorepo/add_component"
  /\ ~call'.opt.list

C29_WitnessInit ==
  /\ call.script = "monorepo/add_component"
  /\ call.pkg = ""
  /\ TargetOf(stdout) = "frontend"
  /\ <<C("bunfig.toml")>> \in DOMAIN before.files

InitProjectRun == call.script \in {"react/init_project", "nextjs/init_project"}

\* What the log of the run tells about a command.
Ran(command) ==
  \E i \in 1..(Len(stdout) - 1) : stdout[i] = "Running:" /\ stdout[i + 1] = command

Failed(command) ==
  \E i \in 1..(Len(stdout) - 2) :
    stdout[i] = "Running:" /\ stdout[i + 1] = command /\ stdout[i + 2] = "Error:"

Succeeded(command) == Ran(command) /\ ~Failed(command)

\* The first command ran to its end before the second was started.
RanBefore(first, second) ==
  \E i, j \in 1..(Len(stdout) - 1) :
    /\ stdout[i] = "Running:" /\ stdout[i + 1] = first
    /\ stdout[j] = "Running:" /\ stdout[j + 1] = second
    /\ i < j

InitializedSuccessfully == HasLine(stdout, "initialized successfully!") /\ status = 0

\* C27: the React and the Next.js init_project print "initialized
\* successfully" only if the project was created (and, for React, Tailwind
\* installed) and, unless --skip-shadcn is given, `shadcn init` or the
\* manual setup succeeded; the manual setup runs only after `shadcn init`
\* failed; and a failed install of the additional packages stops neither
\* the later steps nor the success message.
C27_SuccessOnlyAfterRequiredSteps ==
  InitProjectRun
    => /\ InitializedSuccessfully
            => /\ Succeeded("create")
               /\ call.script = "react/init_project"
                    => /\ Succeeded("npm install")
                       /\ Succeeded("tailwind")
                       /\ Succeeded("tailwindcss init")
               /\ ~call.opt.skip_shadcn
                    => \/ Succeeded("shadcn init")
                       \/ Failed("shadcn init") /\ Succeeded("manual deps")
       /\ ~InitializedSuccessfully => status = 1
       /\ Ran("manual deps")
            => Failed("shadcn init") /\ RanBefore("shadcn init", "manual deps")
       /\ call.opt.skip_shadcn => ~Ran("shadcn init") /\ ~Ran("manual deps")
       /\ Failed("packages")
            => /\ InitializedSuccessfully
               /\ <<C("src"), C("components"), C("ui")>> \in dirs
               /\ <<C("README.md")>> \in DOMAIN files

\* A React run in which `shadcn init` and the additional packages failed
\* and the manual setup succeeded.
C27_Witness ==
  /\ call.script = "react/init_project"
  /\ Failed("shadcn init")
  /\ Succeeded("manual deps")
  /\ Failed("packages")
  /\ InitializedSuccessfully
  /\ <<C("components.json")>> \in DOMAIN files

\* The lines the steps of add_auth print, in the order of main().
AuthStepLines ==
  << "Created Drizzle schema", "Created src/lib/auth.ts", "Created src/app/api/avatar/route.ts",
     "Created src/middleware.ts", "Created src/app/auth/signin/page.tsx",
     "Created public/uploads/avatars directory" >>

LineIndex(line) == CHOOSE i \in 1..Len(stdout) : stdout[i] = line

\* The steps a run with this provider has: the Drizzle schema is for local
\* and both only.
AuthStepsOf(provider) ==
  IF provider = "google" THEN 2..Len(AuthStepLines) ELSE 1..Len(AuthStepLines)

\* C28: the Next.js add_auth creates nothing unless the install of the auth
\* dependencies succeeded: when it fails the run exits 1 and the tree is
\* unchanged; every later step (Drizzle schema, auth config, API route,
\* middleware, sign-in page, uploads directory) runs only after the install
\* and all the steps before it.
C28_NothingBeforeInstall ==
  call.script = "nextjs/add_auth"
    => /\ Failed("auth deps")
            => status = 1 /\ dirs = before.dirs /\ files = before.files
       /\ (dirs # before.dirs \/ files # before.files) => Succeeded("auth deps")
       /\ \A k \in 1..Len(AuthStepLines) :
            HasLine(stdout, AuthStepLines[k])
              => /\ Succeeded("auth deps")
                 /\ k \in AuthStepsOf(call.type)
                 /\ \A j \in AuthStepsOf(call.type) :
                      j < k => /\ HasLine(stdout, AuthStepLines[j])
                               /\ LineIndex(AuthStepLines[j]) < LineIndex(AuthStepLines[k])
       /\ status = 0
            => \A k \in AuthStepsOf(call.type) : HasLine(stdout, AuthStepLines[k])

\* The install failed in a project that init_project had created.
C28_Witness ==
  /\ call.script = "nextjs/add_auth"
  /\ call.type = "local"
  /\ Failed("auth deps")
  /\ <<C("package.json")>> \in DOMAIN before.files
  /\ status = 1
  /\ files = before.files

\* A run of add_auth that went through every step, the failed install of
\* cuid2 inside create_drizzle_schema included.
C28_WitnessAllSteps ==
  /\ call.script = "nextjs/add_auth"
  /\ call.type = "both"
  /\ Succeeded("auth deps")
  /\ Failed("cuid2")
  /\ status = 0
  /\ <<C("public"), C("uploads"), C("avatars")>> \in dirs

ValidateRun ==
  call.script \in {"gin/validate_skill", "monorepo/validate_skill", "react/validate_skill"}

\* What the summary of the run tells about the categories.
CategoryFailed == HasLine(stdout, "FAIL:")

\* What the validators return on the tree of the run, category by category.
CategoriesReturnedTrue ==
  CASE call.script = "gin/validate_skill" ->
         /\ gin_validate_skill_structure(dirs, files)
         /\ validate_skill_md(dirs, files, "gin", {"name:", "description:"})
         /\ gin_validate_scripts(dirs, files)
         /\ validate_readme(dirs, files, "gin")
    [] call.script = "monorepo/validate_skill" ->
         /\ validate_skill_md(dirs, files, "monorepo",
                              {"name:", "description:", "version:", "license:"})
         /\ mono_validate_scripts(dirs, files)
         /\ mono_validate_documentation(dirs, files)
    [] call.script = "react/validate_skill" ->
         /\ react_validate_skill_structure(dirs, files)
         /\ react_validate_skill_md(dirs, files)
         /\ react_validate_scripts(dirs, files, call.opt)
         /\ validate_readme(dirs, files, "react")

\* C30: each validate_skill script exits with status 0 if and only if every
\* validation category returned true, and with status 1 otherwise.
C30_ExitZeroIffAllCategoriesPass ==
  ValidateRun
    => /\ status = 0 <=> CategoriesReturnedTrue
       /\ status = 0 <=> ~CategoryFailed
       /\ status \in {0, 1}
       /\ dirs = before.dirs /\ files = before.files

\* The React validator failed on its Scripts category alone.
C30_Witness ==
  /\ call.script = "react/validate_skill"
  /\ call.opt = {"init_project.py"}
  /\ react_validate_skill_structure(dirs, files)
  /\ react_validate_skill_md(dirs, files)
  /\ validate_readme(dirs, files, "react")
  /\ ~react_validate_scripts(dirs, files, call.opt)
  /\ status = 1

\* A validator passed a complete skill directory.
C30_WitnessPass ==
  /\ ValidateRun
  /\ call.script = "gin/validate_skill"
  /\ status = 0
  /\ HasLine(stdout, "All validations passed!")

====
